---- MODULE Spec2Model ----
(***************************************************************************)
(* public-ip-monitor: the address resolver (internal/ip Fetcher), the      *)
(* state store (internal/ip Storage), the monitor (internal/ip Monitor)    *)
(* and the notification dispatcher (cmd/main.go: changeHandler,            *)
(* notificationWorker, sendEmailNotification, sendWhatsAppNotification).   *)
(*                                                                         *)
(* Strings are sequences of characters.  Errors are wrap chains: the       *)
(* sequence of the messages from the outermost fmt.Errorf("...%w") to the   *)
(* innermost cause; the nil error is the empty chain.                      *)
(***************************************************************************)
EXTENDS Integers, Sequences, FiniteSets, TLC

\* ------------------------------------------------------------------ bounds
MaxBodyLen == 2
MaxServices == 3
MaxChanges == 3
MaxQueueChanges == 12
MaxSendChanges == 2
MaxSaves == 3
MaxLoopChanges == 2

\* ------------------------------------------------------- program constants
QueueCap == 10
maxRetries == 3
StatusOK == 200

\* ----------------------------------------------------------------- strings
Whitespace == {" "}

\* The response bodies the resolver is tried on.
Bodies == UNION {[1..n -> {" ", "1"}] : n \in 0..MaxBodyLen}

RECURSIVE TrimLeft(_)
TrimLeft(s) ==
    IF s # <<>> /\ Head(s) \in Whitespace THEN TrimLeft(Tail(s)) ELSE s

RECURSIVE TrimRight(_)
TrimRight(s) ==
    IF s # <<>> /\ s[Len(s)] \in Whitespace
    THEN TrimRight(SubSeq(s, 1, Len(s) - 1))
    ELSE s

TrimSpace(s) == TrimRight(TrimLeft(s))

Unknown == <<"U", "n", "k", "n", "o", "w", "n">>

\* ------------------------------------------------------------------ errors
Nil == <<>>

Errorf(msg, svc, cause) == <<[msg |-> msg, svc |-> svc]>> \o cause

\* ----------------------------------------------------------------- Fetcher
\* What one endpoint answers to one GET: the transport fails ("neterr"), or
\* an HTTP response arrives whose body can be read ("http") or not
\* ("readerr").
Responses ==
    {[kind |-> "neterr", status |-> 0, body |-> <<>>],
     [kind |-> "readerr", status |-> StatusOK, body |-> <<>>],
     [kind |-> "http", status |-> 500, body |-> <<"1">>]}
    \cup {[kind |-> "http", status |-> StatusOK, body |-> b] : b \in Bodies}

\* fetchFromService returning the body as received.
fetchFromServiceUntrimmed(resp, svc) ==
    IF resp.kind = "neterr"
    THEN [ip |-> <<>>, err |-> Errorf("failed to fetch", svc, Nil)]
    ELSE IF resp.status # StatusOK
    THEN [ip |-> <<>>, err |-> Errorf("service returned status", svc, Nil)]
    ELSE IF resp.kind = "readerr"
    THEN [ip |-> <<>>, err |-> Errorf("failed to read response", svc, Nil)]
    ELSE IF resp.body = <<>>
    THEN [ip |-> <<>>, err |-> Errorf("empty response", svc, Nil)]
    ELSE [ip |-> resp.body, err |-> Nil]

\* The body of the loop of getCurrentIP in src/main.go: any readable
\* answer with status 200 is returned trimmed, an empty one too.
fetchFromServiceUnchecked(resp, svc) ==
    IF resp.kind = "neterr"
    THEN [ip |-> <<>>, err |-> Errorf("failed to fetch", svc, Nil)]
    ELSE IF resp.status # StatusOK
    THEN [ip |-> <<>>, err |-> Errorf("service returned status", svc, Nil)]
    ELSE IF resp.kind = "readerr"
    THEN [ip |-> <<>>, err |-> Errorf("failed to read response", svc, Nil)]
    ELSE [ip |-> TrimSpace(resp.body), err |-> Nil]

fetchFromService(resp, svc) ==
    IF resp.kind = "neterr"
    THEN [ip |-> <<>>, err |-> Errorf("failed to fetch", svc, Nil)]
    ELSE IF resp.status # StatusOK
    THEN [ip |-> <<>>, err |-> Errorf("service returned status", svc, Nil)]
    ELSE IF resp.kind = "readerr"
    THEN [ip |-> <<>>, err |-> Errorf("failed to read response", svc, Nil)]
    ELSE LET ip == TrimSpace(resp.body)
         IN  IF ip = <<>>
             THEN [ip |-> <<>>, err |-> Errorf("empty response", svc, Nil)]
             ELSE [ip |-> ip, err |-> Nil]

\* The for loop keeping the first error instead of the last.
RECURSIVE GetLoopFirstError(_, _, _, _)
GetLoopFirstError(resps, i, lastError, contacted) ==
    IF i > Len(resps)
    THEN [ip |-> <<>>,
          err |-> Errorf("failed to get IP from all services", 0, lastError),
          contacted |-> contacted]
    ELSE LET r == fetchFromService(resps[i], i)
         IN  IF r.err # Nil
             THEN GetLoopFirstError(resps, i + 1,
                                    IF lastError = Nil THEN r.err
                                    ELSE lastError,
                                    Append(contacted, i))
             ELSE [ip |-> r.ip, err |-> Nil,
                   contacted |-> Append(contacted, i)]

\* The for loop of GetCurrentIP from endpoint i on; contacted is the list of
\* the endpoints a GET was issued to so far.
RECURSIVE GetLoop(_, _, _, _)
GetLoop(resps, i, lastError, contacted) ==
    IF i > Len(resps)
    THEN [ip |-> <<>>,
          err |-> Errorf("failed to get IP from all services", 0, lastError),
          contacted |-> contacted]
    ELSE LET r == fetchFromService(resps[i], i)
         IN  IF r.err # Nil
             THEN GetLoop(resps, i + 1, r.err, Append(contacted, i))
             ELSE [ip |-> r.ip, err |-> Nil,
                   contacted |-> Append(contacted, i)]

\* resps[i] is the answer of the i-th configured service.
GetCurrentIP(resps) ==
    IF Len(resps) = 0
    THEN [ip |-> <<>>, err |-> Errorf("no IP services configured", 0, Nil),
          contacted |-> <<>>]
    ELSE GetLoop(resps, 1, Nil, <<>>)

\* ----------------------------------------------------------------- Storage
\* A file is absent or holds data.  The history file holds the JSON array of
\* the records, or bytes json.Unmarshal rejects (valid = FALSE).
NoFile == [exists |-> FALSE, data |-> <<>>]

NoRecords == [exists |-> FALSE, valid |-> TRUE, records |-> <<>>]

\* ReadLastIP reporting a missing file as an error.
ReadLastIPMissingIsError(file, io) ==
    IF ~file.exists \/ io.read
    THEN [ip |-> <<>>, err |-> Errorf("failed to read last IP file", 0, Nil)]
    ELSE [ip |-> TrimSpace(file.data), err |-> Nil]

\* ReadLastIP returning the empty address whatever the file holds.
ReadLastIPEmpty(file, io) ==
    IF ~file.exists THEN [ip |-> <<>>, err |-> Nil]
    ELSE IF io.read
    THEN [ip |-> <<>>, err |-> Errorf("failed to read last IP file", 0, Nil)]
    ELSE [ip |-> SubSeq(file.data, 1, 0), err |-> Nil]

\* ReadLastIP taking a file it cannot read for a missing one.
ReadLastIPIgnoreError(file, io) ==
    IF ~file.exists \/ io.read THEN [ip |-> <<>>, err |-> Nil]
    ELSE [ip |-> TrimSpace(file.data), err |-> Nil]

\* io says which system calls fail: io.read (os.ReadFile, other than "not
\* exist"), io.mkdir (os.MkdirAll), io.write (os.WriteFile).
ReadLastIP(file, io) ==
    IF ~file.exists THEN [ip |-> <<>>, err |-> Nil]
    ELSE IF io.read
    THEN [ip |-> <<>>, err |-> Errorf("failed to read last IP file", 0, Nil)]
    ELSE [ip |-> TrimSpace(file.data), err |-> Nil]

\* SaveLastIP leaving an existing file as it is.
SaveLastIPKeepFirst(file, ip, io) ==
    IF io.mkdir
    THEN [file |-> file,
          err |-> Errorf("failed to create data directory", 0, Nil)]
    ELSE IF io.write
    THEN [file |-> file, err |-> Errorf("failed to save last IP", 0, Nil)]
    ELSE IF file.exists THEN [file |-> file, err |-> Nil]
    ELSE [file |-> [exists |-> TRUE, data |-> ip], err |-> Nil]

\* SaveLastIP writing at the end of an existing file (O_APPEND).
SaveLastIPAppend(file, ip, io) ==
    IF io.mkdir
    THEN [file |-> file,
          err |-> Errorf("failed to create data directory", 0, Nil)]
    ELSE IF io.write
    THEN [file |-> file, err |-> Errorf("failed to save last IP", 0, Nil)]
    ELSE [file |-> [exists |-> TRUE, data |-> file.data \o ip], err |-> Nil]

SaveLastIP(file, ip, io) ==
    IF io.mkdir
    THEN [file |-> file,
          err |-> Errorf("failed to create data directory", 0, Nil)]
    ELSE IF io.write
    THEN [file |-> file, err |-> Errorf("failed to save last IP", 0, Nil)]
    ELSE [file |-> [exists |-> TRUE, data |-> ip], err |-> Nil]

\* GetHistory taking a file that does not parse for an empty history.
GetHistoryIgnoreParse(file, io) ==
    IF ~file.exists THEN [records |-> <<>>, err |-> Nil]
    ELSE IF io.read
    THEN [records |-> <<>>,
          err |-> Errorf("failed to read records file", 0, Nil)]
    ELSE IF ~file.valid
    THEN [records |-> <<>>, err |-> Nil]
    ELSE [records |-> file.records, err |-> Nil]

GetHistory(file, io) ==
    IF ~file.exists THEN [records |-> <<>>, err |-> Nil]
    ELSE IF io.read
    THEN [records |-> <<>>,
          err |-> Errorf("failed to read records file", 0, Nil)]
    ELSE IF ~file.valid
    THEN [records |-> <<>>,
          err |-> Errorf("failed to unmarshal records", 0, Nil)]
    ELSE [records |-> file.records, err |-> Nil]

\* SaveRecord going on with an empty history when the file cannot be read or
\* parsed, as saveIPRecord of src/main.go does.
SaveRecordLenient(file, ip, now, io) ==
    IF io.mkdir
    THEN [file |-> file,
          err |-> Errorf("failed to create data directory", 0, Nil)]
    ELSE LET record == [IP |-> ip, Timestamp |-> now]
             h == GetHistory(file, io)
         IN  IF io.write
             THEN [file |-> file,
                   err |-> Errorf("failed to save IP record", 0, Nil)]
             ELSE [file |-> [exists |-> TRUE, valid |-> TRUE,
                             records |-> Append(h.records, record)],
                   err |-> Nil]

SaveRecord(file, ip, now, io) ==
    IF io.mkdir
    THEN [file |-> file,
          err |-> Errorf("failed to create data directory", 0, Nil)]
    ELSE LET record == [IP |-> ip, Timestamp |-> now]
             h == GetHistory(file, io)
         IN  IF h.err # Nil
             THEN [file |-> file,
                   err |-> Errorf("failed to read existing records", 0, h.err)]
             ELSE IF io.write
             THEN [file |-> file,
                   err |-> Errorf("failed to save IP record", 0, Nil)]
             ELSE [file |-> [exists |-> TRUE, valid |-> TRUE,
                             records |-> Append(h.records, record)],
                   err |-> Nil]

\* ----------------------------------------------------------- configuration
NoConfigFile == [exists |-> FALSE, valid |-> TRUE, doc |-> <<>>]

\* A configuration file holds a JSON object, modelled as the function from
\* its keys to their values, or bytes json.Unmarshal rejects (valid = FALSE).
\* The zero Config is what Unmarshal starts from.
ZeroConfig ==
    [CheckIntervalSeconds |-> 0,
     Logging |-> [Timezone |-> "", Format |-> ""],
     WhatsApp |-> [Enabled |-> FALSE, Token |-> "", PhoneID |-> "",
                   RecipientNumber |-> "", APIVersion |-> "",
                   TimeoutSeconds |-> 0],
     Email |-> [Enabled |-> FALSE, From |-> "", Password |-> "", To |-> "",
                SMTPHost |-> "", SMTPPort |-> "", Timeout |-> 0],
     IP |-> [Services |-> <<>>, TimeoutSeconds |-> 0, DataDir |-> "",
             RecordsFile |-> "", LastIPFile |-> ""]]

DefaultServices ==
    <<"https://api.ipify.org", "https://icanhazip.com",
      "https://ipecho.net/plain">>

createDefaultConfig ==
    [CheckIntervalSeconds |-> 300,
     Logging |-> [Timezone |-> "UTC", Format |-> "2006-01-02 15:04:05"],
     WhatsApp |-> [Enabled |-> FALSE, Token |-> "YOUR_WHATSAPP_TOKEN",
                   PhoneID |-> "YOUR_PHONE_ID",
                   RecipientNumber |-> "YOUR_RECIPIENT_NUMBER",
                   APIVersion |-> "v17.0", TimeoutSeconds |-> 30],
     Email |-> [Enabled |-> TRUE, From |-> "your-email@gmail.com",
                Password |-> "your-app-password",
                To |-> "recipient@gmail.com", SMTPHost |-> "smtp.gmail.com",
                SMTPPort |-> "587", Timeout |-> 30],
     IP |-> [Services |-> DefaultServices, TimeoutSeconds |-> 30,
             DataDir |-> "data", RecordsFile |-> "ip_records.json",
             LastIPFile |-> "last_ip.txt"]]

\* json.MarshalIndent writing the mail section without its "enabled" key.
MarshalOmitEnabled(c) ==
    [check_interval_seconds |-> c.CheckIntervalSeconds,
     logging |-> [timezone |-> c.Logging.Timezone,
                  format |-> c.Logging.Format],
     whatsapp |-> [enabled |-> c.WhatsApp.Enabled, token |-> c.WhatsApp.Token,
                   phone_id |-> c.WhatsApp.PhoneID,
                   recipient_number |-> c.WhatsApp.RecipientNumber,
                   api_version |-> c.WhatsApp.APIVersion,
                   timeout_seconds |-> c.WhatsApp.TimeoutSeconds],
     email |-> [from |-> c.Email.From,
                password |-> c.Email.Password, to |-> c.Email.To,
                smtp_host |-> c.Email.SMTPHost,
                smtp_port |-> c.Email.SMTPPort,
                timeout_seconds |-> c.Email.Timeout],
     ip |-> [services |-> c.IP.Services,
             timeout_seconds |-> c.IP.TimeoutSeconds,
             data_dir |-> c.IP.DataDir, records_file |-> c.IP.RecordsFile,
             last_ip_file |-> c.IP.LastIPFile]]

\* json.MarshalIndent of a Config: every field under the key of its json tag.
Marshal(c) ==
    [check_interval_seconds |-> c.CheckIntervalSeconds,
     logging |-> [timezone |-> c.Logging.Timezone,
                  format |-> c.Logging.Format],
     whatsapp |-> [enabled |-> c.WhatsApp.Enabled, token |-> c.WhatsApp.Token,
                   phone_id |-> c.WhatsApp.PhoneID,
                   recipient_number |-> c.WhatsApp.RecipientNumber,
                   api_version |-> c.WhatsApp.APIVersion,
                   timeout_seconds |-> c.WhatsApp.TimeoutSeconds],
     email |-> [enabled |-> c.Email.Enabled, from |-> c.Email.From,
                password |-> c.Email.Password, to |-> c.Email.To,
                smtp_host |-> c.Email.SMTPHost,
                smtp_port |-> c.Email.SMTPPort,
                timeout_seconds |-> c.Email.Timeout],
     ip |-> [services |-> c.IP.Services,
             timeout_seconds |-> c.IP.TimeoutSeconds,
             data_dir |-> c.IP.DataDir, records_file |-> c.IP.RecordsFile,
             last_ip_file |-> c.IP.LastIPFile]]

\* The value of a key of a JSON object, the field's zero value without it.
Get(obj, key, zero) == IF key \in DOMAIN obj THEN obj[key] ELSE zero

\* json.Unmarshal into the zero Config: a field is set from the key of its
\* json tag and keeps its zero value when the object has no such key.
Unmarshal(doc) ==
    LET z == ZeroConfig
        l == Get(doc, "logging", <<>>)
        w == Get(doc, "whatsapp", <<>>)
        m == Get(doc, "email", <<>>)
        i == Get(doc, "ip", <<>>)
    IN  [CheckIntervalSeconds |->
            Get(doc, "check_interval_seconds", z.CheckIntervalSeconds),
         Logging |-> [Timezone |-> Get(l, "timezone", z.Logging.Timezone),
                      Format |-> Get(l, "format", z.Logging.Format)],
         WhatsApp |->
            [Enabled |-> Get(w, "enabled", z.WhatsApp.Enabled),
             Token |-> Get(w, "token", z.WhatsApp.Token),
             PhoneID |-> Get(w, "phone_id", z.WhatsApp.PhoneID),
             RecipientNumber |->
                Get(w, "recipient_number", z.WhatsApp.RecipientNumber),
             APIVersion |-> Get(w, "api_version", z.WhatsApp.APIVersion),
             TimeoutSeconds |->
                Get(w, "timeout_seconds", z.WhatsApp.TimeoutSeconds)],
         Email |->
            [Enabled |-> Get(m, "enabled", z.Email.Enabled),
             From |-> Get(m, "from", z.Email.From),
             Password |-> Get(m, "password", z.Email.Password),
             To |-> Get(m, "to", z.Email.To),
             SMTPHost |-> Get(m, "smtp_host", z.Email.SMTPHost),
             SMTPPort |-> Get(m, "smtp_port", z.Email.SMTPPort),
             Timeout |-> Get(m, "timeout_seconds", z.Email.Timeout)],
         IP |->
            [Services |-> Get(i, "services", z.IP.Services),
             TimeoutSeconds |->
                Get(i, "timeout_seconds", z.IP.TimeoutSeconds),
             DataDir |-> Get(i, "data_dir", z.IP.DataDir),
             RecordsFile |-> Get(i, "records_file", z.IP.RecordsFile),
             LastIPFile |-> Get(i, "last_ip_file", z.IP.LastIPFile)]]

\* validateConfig leaving an empty list of services as it is.
validateConfigKeepServices(c) ==
    [CheckIntervalSeconds |->
        IF c.CheckIntervalSeconds <= 0 THEN 300 ELSE c.CheckIntervalSeconds,
     Logging |->
        [Timezone |-> IF c.Logging.Timezone = "" THEN "UTC"
                      ELSE c.Logging.Timezone,
         Format |-> IF c.Logging.Format = "" THEN "2006-01-02 15:04:05"
                    ELSE c.Logging.Format],
     WhatsApp |->
        [c.WhatsApp EXCEPT
            !.APIVersion = IF @ = "" THEN "v17.0" ELSE @,
            !.TimeoutSeconds = IF @ <= 0 THEN 30 ELSE @],
     Email |->
        [c.Email EXCEPT
            !.SMTPPort = IF @ = "" THEN "587" ELSE @,
            !.Timeout = IF @ <= 0 THEN 30 ELSE @],
     IP |->
        [Services |-> c.IP.Services,
         TimeoutSeconds |-> IF c.IP.TimeoutSeconds <= 0 THEN 30
                            ELSE c.IP.TimeoutSeconds,
         DataDir |-> IF c.IP.DataDir = "" THEN "data" ELSE c.IP.DataDir,
         RecordsFile |-> IF c.IP.RecordsFile = "" THEN "ip_records.json"
                         ELSE c.IP.RecordsFile,
         LastIPFile |-> IF c.IP.LastIPFile = "" THEN "last_ip.txt"
                        ELSE c.IP.LastIPFile]]

\* validateConfig: a default for every field that is empty or not positive;
\* it returns nil always.
validateConfig(c) ==
    [CheckIntervalSeconds |->
        IF c.CheckIntervalSeconds <= 0 THEN 300 ELSE c.CheckIntervalSeconds,
     Logging |->
        [Timezone |-> IF c.Logging.Timezone = "" THEN "UTC"
                      ELSE c.Logging.Timezone,
         Format |-> IF c.Logging.Format = "" THEN "2006-01-02 15:04:05"
                    ELSE c.Logging.Format],
     WhatsApp |->
        [c.WhatsApp EXCEPT
            !.APIVersion = IF @ = "" THEN "v17.0" ELSE @,
            !.TimeoutSeconds = IF @ <= 0 THEN 30 ELSE @],
     Email |->
        [c.Email EXCEPT
            !.SMTPPort = IF @ = "" THEN "587" ELSE @,
            !.Timeout = IF @ <= 0 THEN 30 ELSE @],
     IP |->
        [Services |-> IF Len(c.IP.Services) = 0 THEN DefaultServices
                      ELSE c.IP.Services,
         TimeoutSeconds |-> IF c.IP.TimeoutSeconds <= 0 THEN 30
                            ELSE c.IP.TimeoutSeconds,
         DataDir |-> IF c.IP.DataDir = "" THEN "data" ELSE c.IP.DataDir,
         RecordsFile |-> IF c.IP.RecordsFile = "" THEN "ip_records.json"
                         ELSE c.IP.RecordsFile,
         LastIPFile |-> IF c.IP.LastIPFile = "" THEN "last_ip.txt"
                        ELSE c.IP.LastIPFile]]

\* Manager.Save; io says which system calls fail, as for the store.
Save(file, c, io) ==
    IF io.mkdir
    THEN [file |-> file,
          err |-> Errorf("failed to create config directory", 0, Nil)]
    ELSE IF io.write
    THEN [file |-> file,
          err |-> Errorf("failed to write config file", 0, Nil)]
    ELSE [file |-> [exists |-> TRUE, valid |-> TRUE, doc |-> Marshal(c)],
          err |-> Nil]

\* Manager.Load: the file after the call, and the (*Config, error) returned
\* (hasConfig = FALSE for the nil *Config).
Load(file, io) ==
    IF ~file.exists
    THEN LET sv == Save(file, createDefaultConfig, io)
         IN  IF sv.err # Nil
             THEN [file |-> sv.file, hasConfig |-> FALSE,
                   config |-> ZeroConfig,
                   err |-> Errorf("failed to create default config", 0,
                                  sv.err)]
             ELSE [file |-> sv.file, hasConfig |-> FALSE,
                   config |-> ZeroConfig,
                   err |-> Errorf("created default config file", 0, Nil)]
    ELSE IF io.read
    THEN [file |-> file, hasConfig |-> FALSE, config |-> ZeroConfig,
          err |-> Errorf("failed to read config file", 0, Nil)]
    ELSE IF ~file.valid
    THEN [file |-> file, hasConfig |-> FALSE, config |-> ZeroConfig,
          err |-> Errorf("failed to parse config file", 0, Nil)]
    ELSE [file |-> file, hasConfig |-> TRUE,
          config |-> validateConfig(Unmarshal(file.doc)), err |-> Nil]

NoLoadOut ==
    [called |-> FALSE, io |-> [read |-> FALSE, mkdir |-> FALSE,
                              write |-> FALSE],
     hasConfig |-> FALSE, config |-> ZeroConfig, err |-> Nil, exit |-> FALSE]

NoStoreOut ==
    [op |-> "none", err |-> Nil, last |-> [ip |-> <<>>, err |-> Nil],
     history |-> [records |-> <<>>, err |-> Nil]]

\* ----------------------------------------------------------------- program
VARIABLES
    cfg,          \* cfg.Email.Enabled, cfg.WhatsApp.Enabled
    lastIPFile,   \* the last-address file
    recordsFile,  \* the history file
    clock,        \* number of instants time.Now() has returned so far
    mpc,          \* CheckOnce: "idle", or "resolved" after GetCurrentIP
    currentIP,    \* CheckOnce's currentIP while mpc = "resolved"
    result,       \* the CheckResult of the last completed CheckOnce
    called,       \* the last completed CheckOnce invoked the change handler
    offered,      \* the requests the change handler built, in order
    dropped,      \* Timestamps of the requests dropped with a warning
    queue,        \* notificationChan's buffer
    dpc,          \* notificationWorker: "recv" or "wait" (the select)
    req,          \* the request the worker holds
    tasks,        \* the send goroutines that the worker waits for or that
                  \* still run, by <<Timestamp, channel>>
    timedOut,     \* Timestamps of the requests with a timeout warning
    dequeued,     \* Timestamps of the requests received, in order
    started,      \* the <<Timestamp, channel>> a send goroutine was started for
    fetchIn,      \* resolver harness: the endpoints' answers
    fetchOut,     \* resolver harness: what GetCurrentIP returned
    tickEnv,      \* what failed around the CheckOnce last started: every
                  \* endpoint (resolve), os.ReadFile of the last address (read)
    ctxDone,      \* main's ctx has been cancelled
    chanClosed,   \* notificationChan has been closed
    lpc,          \* the goroutine of StartMonitoring: "check", "send",
                  \* "ticker", "stopped", "panicked" ("off": not started)
    resultChan,   \* the buffer of resultChan
    resultClosed, \* resultChan has been closed
    mainpc,       \* main: "loop", "sleep" (after a signal), "exited";
                  \* with -check: "once", "checked", "sleep", "exited", "exit1";
                  \* "crashed" by a panic of the monitor's goroutine,
                  \* "closepanic" by a close of the closed notificationChan
    configFile,   \* the configuration file
    loadOut,      \* configuration harness: what Manager.Load returned
    saved,        \* store harness: the addresses saved so far, in order
    storeOut      \* store harness: what ReadLastIP and GetHistory returned

vars == <<cfg, lastIPFile, recordsFile, clock, mpc, currentIP, result, called,
          offered, dropped, queue, dpc, req, tasks, timedOut, dequeued,
          started, fetchIn, fetchOut, tickEnv, ctxDone, chanClosed, lpc,
          resultChan, resultClosed, mainpc, configFile, loadOut, saved,
          storeOut>>

storeVars == <<lastIPFile, recordsFile, clock>>
handlerVars == <<offered, dropped, queue>>
monitorVars == <<mpc, currentIP, result, called, tickEnv>>
workerVars == <<dpc, req, timedOut, dequeued, started>>
fetchVars == <<fetchIn, fetchOut>>
ctxVars == <<ctxDone, chanClosed>>
loopVars == <<lpc, resultChan, resultClosed, mainpc>>
configVars == <<configFile, loadOut>>
storageVars == <<saved, storeOut>>

Channels == {"email", "whatsapp"}

NoRequest == [OldIP |-> <<>>, NewIP |-> <<>>, Timestamp |-> 0]

NoResult == [CurrentIP |-> <<>>, LastIP |-> <<>>, Changed |-> FALSE,
             Error |-> Nil]

NoFetch == [ip |-> <<>>, err |-> Nil, contacted |-> <<>>]

\* ------------------------------------------------------------ changeHandler
\* The handler making room by discarding the oldest queued request.
changeHandlerDropOldest(q, oldIP, newIP, now) ==
    LET old == IF oldIP = <<>> THEN Unknown ELSE oldIP
        r == [OldIP |-> old, NewIP |-> newIP, Timestamp |-> now]
    IN  IF Len(q) < QueueCap
        THEN [queue |-> Append(q, r), request |-> r, full |-> FALSE,
              blocks |-> FALSE, err |-> Nil]
        ELSE [queue |-> Append(Tail(q), r), request |-> r, full |-> TRUE,
              blocks |-> FALSE, err |-> Nil]

\* The handler passing the empty previous address on as it is.
changeHandlerKeepEmpty(q, oldIP, newIP, now) ==
    LET r == [OldIP |-> oldIP, NewIP |-> newIP, Timestamp |-> now]
    IN  IF Len(q) < QueueCap
        THEN [queue |-> Append(q, r), request |-> r, full |-> FALSE,
              blocks |-> FALSE, err |-> Nil]
        ELSE [queue |-> q, request |-> r, full |-> TRUE,
              blocks |-> FALSE, err |-> Nil]

\* The handler building the request with the two addresses exchanged.
changeHandlerSwapped(q, oldIP, newIP, now) ==
    LET old == IF oldIP = <<>> THEN Unknown ELSE oldIP
        r == [OldIP |-> newIP, NewIP |-> old, Timestamp |-> now]
    IN  IF Len(q) < QueueCap
        THEN [queue |-> Append(q, r), request |-> r, full |-> FALSE,
              blocks |-> FALSE, err |-> Nil]
        ELSE [queue |-> q, request |-> r, full |-> TRUE,
              blocks |-> FALSE, err |-> Nil]

\* The handler with a plain channel send, without the default branch.
changeHandlerBlocking(q, oldIP, newIP, now) ==
    LET old == IF oldIP = <<>> THEN Unknown ELSE oldIP
        r == [OldIP |-> old, NewIP |-> newIP, Timestamp |-> now]
    IN  [queue |-> Append(q, r), request |-> r, full |-> FALSE,
         blocks |-> Len(q) >= QueueCap, err |-> Nil]

\* The select with a default branch on the buffered channel: the send is
\* taken when the buffer has room, the default otherwise, so the handler
\* never waits (blocks = FALSE).  It returns nil on both branches.
changeHandler(q, oldIP, newIP, now) ==
    LET old == IF oldIP = <<>> THEN Unknown ELSE oldIP
        r == [OldIP |-> old, NewIP |-> newIP, Timestamp |-> now]
    IN  IF Len(q) < QueueCap
        THEN [queue |-> Append(q, r), request |-> r, full |-> FALSE,
              blocks |-> FALSE, err |-> Nil]
        ELSE [queue |-> q, request |-> r, full |-> TRUE,
              blocks |-> FALSE, err |-> Nil]

\* ------------------------------------------------------------------ Monitor
\* f names the system calls that fail during this CheckOnce.
IOFaults ==
    [readLast : BOOLEAN, saveLast : {"ok", "mkdir", "write"},
     saveRecord : {"ok", "mkdir", "read", "write"}]

NoFaults == {[readLast |-> FALSE, saveLast |-> "ok", saveRecord |-> "ok"]}

IO(read, mkdir, write) == [read |-> read, mkdir |-> mkdir, write |-> write]

\* handleIPChange on the state s = [last, recs, clock, queue, closed]; the
\* result carries the new state, whether the handler ran (called), the
\* request it built and whether it found the buffer full.  The handler's
\* send on a closed notificationChan panics (panic = TRUE): the select takes
\* the send case, nothing is queued and handleIPChange does not return.
handleIPChange(s, oldIP, newIP, f) ==
    LET none == [s EXCEPT !.called = FALSE]
        sl == SaveLastIP(s.last, newIP,
                         IO(FALSE, f.saveLast = "mkdir", f.saveLast = "write"))
    IN  IF sl.err # Nil
        THEN [none EXCEPT !.err = Errorf("failed to save new IP", 0, sl.err)]
        ELSE
        LET now == s.clock + 1
            sr == SaveRecord(s.recs, newIP, now,
                             IO(f.saveRecord = "read", f.saveRecord = "mkdir",
                                f.saveRecord = "write"))
            s1 == [none EXCEPT !.last = sl.file,
                               !.clock = IF f.saveRecord = "mkdir"
                                         THEN s.clock ELSE now]
        IN  IF sr.err # Nil
            THEN [s1 EXCEPT
                    !.err = Errorf("failed to save IP record", 0, sr.err)]
            ELSE
            LET h == changeHandler(s.queue, oldIP, newIP, now)
                s2 == [s1 EXCEPT !.recs = sr.file, !.queue = h.queue,
                                 !.called = TRUE, !.request = h.request,
                                 !.full = h.full, !.blocks = h.blocks]
            IN  IF s.closed
                THEN [s1 EXCEPT !.recs = sr.file, !.called = TRUE,
                                !.request = h.request, !.panic = TRUE]
                ELSE IF h.err # Nil
                THEN [s2 EXCEPT
                        !.err = Errorf("change handler failed", 0, h.err)]
                ELSE s2

\* The endpoints' answers a tick of the monitor may see.
TickServices == 2

TickResponses ==
    [1..TickServices ->
        {[kind |-> "neterr", status |-> 0, body |-> <<>>],
         [kind |-> "http", status |-> StatusOK, body |-> <<"1">>],
         [kind |-> "http", status |-> StatusOK, body |-> <<" ", "2">>]}]

\* A request made with a cancelled context fails in httpClient.Do.
CancelledResponses ==
    {[i \in 1..TickServices |->
        [kind |-> "neterr", status |-> 0, body |-> <<>>]]}

NoTickEnv == [resolve |-> FALSE, read |-> FALSE]

\* Answers with status 200 and nothing, or only whitespace, in the body,
\* beside answers that carry an address.
BlankResponses ==
    [1..TickServices ->
        {[kind |-> "http", status |-> StatusOK, body |-> <<>>],
         [kind |-> "http", status |-> StatusOK, body |-> <<" ">>],
         [kind |-> "http", status |-> StatusOK, body |-> <<"1">>],
         [kind |-> "http", status |-> StatusOK, body |-> <<" ", "2">>]}]

\* CheckOnce up to the return of GetCurrentIP (the network call), the
\* endpoints answering one of answers.  The position of the calling
\* goroutine (loopVars) is left to the caller.
CheckOnceResolveFrom(limit, answers) ==
    /\ mpc = "idle"
    /\ clock < limit
    /\ \E resps \in (IF ctxDone THEN CancelledResponses ELSE answers) :
         LET g == GetCurrentIP(resps)
         IN  /\ tickEnv' = [resolve |-> \A i \in DOMAIN resps :
                                           resps[i].kind = "neterr",
                            read |-> FALSE]
             /\ IF g.err # Nil
                THEN /\ result' = [NoResult EXCEPT !.Error =
                           Errorf("failed to get current IP", 0, g.err)]
                     /\ called' = FALSE
                     /\ UNCHANGED <<mpc, currentIP>>
                ELSE /\ mpc' = "resolved"
                     /\ currentIP' = g.ip
                     /\ UNCHANGED <<result, called>>
    /\ UNCHANGED <<cfg, storeVars, handlerVars, workerVars, tasks, fetchVars,
                   ctxVars, configVars, storageVars>>

CheckOnceResolve(limit) == CheckOnceResolveFrom(limit, TickResponses)

\* The comparison taking an empty last address for "nothing to compare".
ChangedUnlessEmpty(cur, last) == last # <<>> /\ cur # last

\* changed := currentIP != lastIP
Changed(cur, last) == cur # last

\* The rest of CheckOnce: ReadLastIP, the comparison, handleIPChange.
CheckOnceFinish(faults) ==
    /\ mpc = "resolved"
    /\ currentIP' = <<>>
    /\ \E f \in faults :
         LET rl == ReadLastIP(lastIPFile, IO(f.readLast, FALSE, FALSE))
             changed == Changed(currentIP, rl.ip)
             res == [CurrentIP |-> currentIP, LastIP |-> rl.ip,
                     Changed |-> changed, Error |-> Nil]
             s == [last |-> lastIPFile, recs |-> recordsFile,
                   clock |-> clock, queue |-> queue, called |-> FALSE,
                   request |-> NoRequest, full |-> FALSE, blocks |-> FALSE,
                   err |-> Nil, closed |-> chanClosed, panic |-> FALSE]
             h == handleIPChange(s, rl.ip, currentIP, f)
         IN  /\ tickEnv' = [tickEnv EXCEPT !.read = f.readLast /\ lastIPFile.exists]
             /\ IF rl.err # Nil
                THEN /\ result' = [NoResult EXCEPT !.Error =
                           Errorf("failed to read last IP", 0, rl.err)]
                     /\ called' = FALSE
                     /\ mpc' = "idle"
                     /\ UNCHANGED <<storeVars, handlerVars>>
                ELSE IF ~changed
                THEN /\ result' = res
                     /\ called' = FALSE
                     /\ mpc' = "idle"
                     /\ UNCHANGED <<storeVars, handlerVars>>
                ELSE /\ ~h.blocks
                     /\ mpc' = IF h.panic THEN "panic" ELSE "idle"
                     /\ result' = IF h.panic THEN result
                                  ELSE IF h.err # Nil
                                  THEN [res EXCEPT !.Error = Errorf(
                                          "failed to handle IP change", 0,
                                          h.err)]
                                  ELSE res
                     /\ called' = h.called
                     /\ lastIPFile' = h.last
                     /\ recordsFile' = h.recs
                     /\ clock' = h.clock
                     /\ queue' = h.queue
                     /\ offered' = IF h.called /\ ~h.panic
                                   THEN Append(offered, h.request)
                                   ELSE offered
                     /\ dropped' = IF h.called /\ h.full
                                   THEN dropped \cup {h.request.Timestamp}
                                   ELSE dropped
    /\ UNCHANGED <<cfg, workerVars, tasks, fetchVars,
                   ctxVars, configVars, storageVars>>

\* --------------------------------------------------------------- Dispatcher
\* main's clients: created when the channel is enabled (NewClient returns a
\* client and no error), the nil interface value otherwise.
NilClient == "nil"

emailClient == IF cfg.EmailEnabled THEN "SMTPClient" ELSE NilClient

whatsappClient == IF cfg.WhatsAppEnabled THEN "MetaClient" ELSE NilClient

\* The worker starting both goroutines whatever the configuration says.
EnabledAlways(ch) == TRUE

\* The worker's conditions cfg.Email.Enabled && emailClient != nil and
\* cfg.WhatsApp.Enabled && whatsappClient != nil.
Enabled(ch) ==
    IF ch = "email"
    THEN cfg.EmailEnabled /\ emailClient # NilClient
    ELSE cfg.WhatsAppEnabled /\ whatsappClient # NilClient

\* A send goroutine at its first client.Send.  sends counts the Send calls
\* issued, results lists what they returned, okLogs and failLogs count the
\* "sent successfully" and "Failed to send ... after 3 attempts" lines, waits
\* lists the backoff sleeps in seconds.
NewTask ==
    [attempt |-> 1, st |-> "sending", sends |-> 1, results |-> <<>>,
     okLogs |-> 0, failLogs |-> 0, waits |-> <<>>]

\* A wait of one second after every failed attempt.
BackoffConstant(attempt) == 1

\* time.Duration(1<<(attempt-1)) * time.Second, in seconds.
Backoff(attempt) == 2 ^ (attempt - 1)

\* The retry loop without the return after a successful Send.
sendEmailNotificationNoReturn(t, outcome) ==
    LET u == [t EXCEPT !.results = Append(@, outcome)]
    IN  IF outcome = "err"
        THEN IF t.attempt = maxRetries
             THEN [u EXCEPT !.st = "failed", !.failLogs = @ + 1]
             ELSE [u EXCEPT !.st = "backoff",
                            !.waits = Append(@, Backoff(t.attempt))]
        ELSE IF t.attempt = maxRetries
        THEN [u EXCEPT !.st = "ok", !.okLogs = @ + 1]
        ELSE [u EXCEPT !.okLogs = @ + 1, !.attempt = @ + 1, !.sends = @ + 1]

\* One pass of the retry loop of sendEmailNotification, from the return of
\* client.Send with outcome "ok" or "err" to the return or the sleep.
sendEmailNotification(t, outcome) ==
    LET u == [t EXCEPT !.results = Append(@, outcome)]
    IN  IF outcome = "err"
        THEN IF t.attempt = maxRetries
             THEN [u EXCEPT !.st = "failed", !.failLogs = @ + 1]
             ELSE [u EXCEPT !.st = "backoff",
                            !.waits = Append(@, Backoff(t.attempt))]
        ELSE [u EXCEPT !.st = "ok", !.okLogs = @ + 1]

\* The retry loop returning after the last failure without the error line.
sendWhatsAppNotificationSilent(t, outcome) ==
    LET u == [t EXCEPT !.results = Append(@, outcome)]
    IN  IF outcome = "err"
        THEN IF t.attempt = maxRetries
             THEN [u EXCEPT !.st = "failed"]
             ELSE [u EXCEPT !.st = "backoff",
                            !.waits = Append(@, Backoff(t.attempt))]
        ELSE [u EXCEPT !.st = "ok", !.okLogs = @ + 1]

sendWhatsAppNotification(t, outcome) ==
    LET u == [t EXCEPT !.results = Append(@, outcome)]
    IN  IF outcome = "err"
        THEN IF t.attempt = maxRetries
             THEN [u EXCEPT !.st = "failed", !.failLogs = @ + 1]
             ELSE [u EXCEPT !.st = "backoff",
                            !.waits = Append(@, Backoff(t.attempt))]
        ELSE [u EXCEPT !.st = "ok", !.okLogs = @ + 1]

\* The loop's continue: attempt++ and the next client.Send.
NextAttempt(t) ==
    [t EXCEPT !.attempt = @ + 1, !.st = "sending", !.sends = @ + 1]

Finished(t) == t.st \in {"ok", "failed"}

TasksOf(ts) == {k \in DOMAIN tasks : k[1] = ts}

\* The goroutines of tt that have not returned.
Running(tt) == [k \in {j \in DOMAIN tt : ~Finished(tt[j])} |-> tt[k]]

\* A goroutine that returns is kept while the worker waits for it.
Awaited(k) == dpc = "wait" /\ k[1] = req.Timestamp

\* wg.Wait() has returned: every goroutine of the held request is done.
AllDone == \A k \in TasksOf(req.Timestamp) : Finished(tasks[k])

\* The worker taking the newest queued request first.
WorkerReceiveNewest ==
    /\ dpc = "recv"
    /\ queue # <<>>
    /\ LET r == queue[Len(queue)]
           new == {<<r.Timestamp, ch>> : ch \in {c \in Channels : Enabled(c)}}
       IN  /\ req' = r
           /\ queue' = SubSeq(queue, 1, Len(queue) - 1)
           /\ dequeued' = Append(dequeued, r.Timestamp)
           /\ tasks' = [k \in DOMAIN tasks \cup new |->
                          IF k \in new THEN NewTask ELSE tasks[k]]
           /\ started' = started \cup new
    /\ dpc' = "wait"
    /\ UNCHANGED <<cfg, storeVars, monitorVars, offered, dropped, timedOut,
                   fetchVars,
                   ctxVars, loopVars, configVars, storageVars>>

\* for req := range notificationChan, and the go statements of the body.
WorkerReceive ==
    /\ dpc = "recv"
    /\ queue # <<>>
    /\ LET r == Head(queue)
           new == {<<r.Timestamp, ch>> : ch \in {c \in Channels : Enabled(c)}}
       IN  /\ req' = r
           /\ queue' = Tail(queue)
           /\ dequeued' = Append(dequeued, r.Timestamp)
           /\ tasks' = [k \in DOMAIN tasks \cup new |->
                          IF k \in new THEN NewTask ELSE tasks[k]]
           /\ started' = started \cup new
    /\ dpc' = "wait"
    /\ UNCHANGED <<cfg, storeVars, monitorVars, offered, dropped, timedOut,
                   fetchVars,
                   ctxVars, loopVars, configVars, storageVars>>

\* The worker going on to the next request without waiting for the
\* goroutines of the one it holds.
WorkerDoneNoWait ==
    /\ dpc = "wait"
    /\ dpc' = "recv"
    /\ req' = NoRequest
    /\ tasks' = Running(tasks)
    /\ UNCHANGED <<cfg, storeVars, monitorVars, handlerVars, timedOut,
                   dequeued, started, fetchVars,
                   ctxVars, loopVars, configVars, storageVars>>

\* select: case <-done.
WorkerDone ==
    /\ dpc = "wait"
    /\ AllDone
    /\ dpc' = "recv"
    /\ req' = NoRequest
    /\ tasks' = Running(tasks)
    /\ UNCHANGED <<cfg, storeVars, monitorVars, handlerVars, timedOut,
                   dequeued, started, fetchVars,
                   ctxVars, loopVars, configVars, storageVars>>

\* The worker waiting on done alone, without the timer.
WorkerTimeoutNever ==
    /\ dpc = "wait"
    /\ FALSE
    /\ UNCHANGED vars

\* The worker putting the request it gave up on back into the channel.
WorkerTimeoutRequeue ==
    /\ dpc = "wait"
    /\ ~AllDone
    /\ timedOut' = timedOut \cup {req.Timestamp}
    /\ dpc' = "recv"
    /\ req' = NoRequest
    /\ queue' = Append(queue, req)
    /\ tasks' = Running(tasks)
    /\ UNCHANGED <<cfg, storeVars, monitorVars, offered, dropped, dequeued,
                   started, fetchVars,
                   ctxVars, loopVars, configVars, storageVars>>

\* The worker returning from its loop after the timeout warning.
WorkerTimeoutReturn ==
    /\ dpc = "wait"
    /\ ~AllDone
    /\ timedOut' = timedOut \cup {req.Timestamp}
    /\ dpc' = "returned"
    /\ req' = NoRequest
    /\ tasks' = Running(tasks)
    /\ UNCHANGED <<cfg, storeVars, monitorVars, handlerVars, dequeued,
                   started, fetchVars,
                   ctxVars, loopVars, configVars, storageVars>>

\* select: case <-time.After(30 * time.Second), which fires only while a
\* goroutine of the held request is still running.
WorkerTimeout ==
    /\ dpc = "wait"
    /\ ~AllDone
    /\ timedOut' = timedOut \cup {req.Timestamp}
    /\ dpc' = "recv"
    /\ req' = NoRequest
    /\ tasks' = Running(tasks)
    /\ UNCHANGED <<cfg, storeVars, monitorVars, handlerVars, dequeued,
                   started, fetchVars,
                   ctxVars, loopVars, configVars, storageVars>>

\* A final failure on one channel ending the other channel's goroutine too.
SendReturnsCancelSibling ==
    /\ \E k \in DOMAIN tasks : \E outcome \in {"ok", "err"} :
         /\ tasks[k].st = "sending"
         /\ LET t == IF k[2] = "email"
                     THEN sendEmailNotification(tasks[k], outcome)
                     ELSE sendWhatsAppNotification(tasks[k], outcome)
                tt == [j \in DOMAIN tasks |->
                         IF j = k THEN t
                         ELSE IF j[1] = k[1] /\ t.st = "failed"
                                 /\ ~Finished(tasks[j])
                         THEN [tasks[j] EXCEPT !.st = "failed",
                                               !.failLogs = @ + 1]
                         ELSE tasks[j]]
            IN  tasks' = IF Awaited(k) THEN tt ELSE Running(tt)
    /\ UNCHANGED <<cfg, storeVars, monitorVars, handlerVars, workerVars,
                   fetchVars,
                   ctxVars, loopVars, configVars, storageVars>>

\* client.Send returns in one send goroutine.
SendReturns ==
    /\ \E k \in DOMAIN tasks : \E outcome \in {"ok", "err"} :
         /\ tasks[k].st = "sending"
         /\ LET t == IF k[2] = "email"
                     THEN sendEmailNotification(tasks[k], outcome)
                     ELSE sendWhatsAppNotification(tasks[k], outcome)
                tt == [tasks EXCEPT ![k] = t]
            IN  tasks' = IF Awaited(k) THEN tt ELSE Running(tt)
    /\ UNCHANGED <<cfg, storeVars, monitorVars, handlerVars, workerVars,
                   fetchVars,
                   ctxVars, loopVars, configVars, storageVars>>

\* time.Sleep(backoff) returns in one send goroutine.
BackoffElapsed ==
    /\ \E k \in DOMAIN tasks :
         /\ tasks[k].st = "backoff"
         /\ tasks' = [tasks EXCEPT ![k] = NextAttempt(@)]
    /\ UNCHANGED <<cfg, storeVars, monitorVars, handlerVars, workerVars,
                   fetchVars,
                   ctxVars, loopVars, configVars, storageVars>>

\* ----------------------------------------------------------- resolver alone
FetchCall ==
    /\ fetchOut = NoFetch
    /\ fetchIn # <<>>
    /\ fetchOut' = GetCurrentIP(fetchIn)
    /\ UNCHANGED <<cfg, storeVars, monitorVars, handlerVars, workerVars,
                   tasks, fetchIn, ctxVars, loopVars, configVars,
                   storageVars>>

\* ------------------------------------------------- StartMonitoring and main
\* The process runs: main has not returned and no goroutine has panicked.
Alive == mainpc \in {"loop", "sleep", "once", "checked"}

\* The system calls that fail during a tick of the monitoring loop.
LoopFaults ==
    {f \in IOFaults : f.saveLast \in {"ok", "write"}
                      /\ f.saveRecord \in {"ok", "write"}}

\* m.CheckOnce(ctx), evaluated on entering the select, up to the return of
\* GetCurrentIP.  (The horizon MaxLoopChanges is applied where the ticker
\* fires, so it holds here.)
LoopCheck ==
    /\ Alive
    /\ lpc = "check"
    /\ CheckOnceResolve(MaxLoopChanges)
    /\ lpc' = IF mpc' = "idle" THEN "send" ELSE "check"
    /\ UNCHANGED <<resultChan, resultClosed, mainpc>>

\* The rest of m.CheckOnce(ctx).  A panic in the change handler runs the
\* deferred close(resultChan) and ends the process.
LoopCheckFinish ==
    /\ Alive
    /\ lpc = "check"
    /\ CheckOnceFinish(LoopFaults)
    /\ lpc' = IF mpc' = "panic" THEN "panicked" ELSE "send"
    /\ resultClosed' = (mpc' = "panic")
    /\ mainpc' = IF mpc' = "panic" THEN "crashed" ELSE mainpc
    /\ UNCHANGED resultChan

\* The goroutine leaving the loop whenever the check returned an error.
LoopSendStopOnError ==
    /\ Alive
    /\ lpc = "send"
    /\ Len(resultChan) < 1
    /\ resultChan' = Append(resultChan, result)
    /\ lpc' = IF result.Error # Nil THEN "stopped" ELSE "ticker"
    /\ resultClosed' = (result.Error # Nil)
    /\ UNCHANGED <<cfg, storeVars, monitorVars, handlerVars, workerVars,
                   tasks, fetchVars, ctxVars, configVars, storageVars,
                   mainpc>>

\* The goroutine checking again as soon as the result is sent.
LoopSendNoTicker ==
    /\ Alive
    /\ lpc = "send"
    /\ Len(resultChan) < 1
    /\ resultChan' = Append(resultChan, result)
    /\ lpc' = "check"
    /\ UNCHANGED <<cfg, storeVars, monitorVars, handlerVars, workerVars,
                   tasks, fetchVars, ctxVars, configVars, storageVars,
                   resultClosed, mainpc>>

\* select: case resultChan <- result, taken when the buffer of one has room.
LoopSend ==
    /\ Alive
    /\ lpc = "send"
    /\ Len(resultChan) < 1
    /\ resultChan' = Append(resultChan, result)
    /\ lpc' = "ticker"
    /\ UNCHANGED <<cfg, storeVars, monitorVars, handlerVars, workerVars,
                   tasks, fetchVars, ctxVars, configVars, storageVars,
                   resultClosed, mainpc>>

\* The goroutine with selects that have no case <-ctx.Done().
LoopCancelledNever ==
    /\ Alive
    /\ FALSE
    /\ UNCHANGED vars

\* select: case <-ctx.Done(), in either select; the return runs the deferred
\* close(resultChan).
LoopCancelled ==
    /\ Alive
    /\ lpc \in {"send", "ticker"}
    /\ ctxDone
    /\ lpc' = "stopped"
    /\ resultClosed' = TRUE
    /\ UNCHANGED <<cfg, storeVars, monitorVars, handlerVars, workerVars,
                   tasks, fetchVars, ctxVars, configVars, storageVars,
                   resultChan, mainpc>>

\* select: case <-ticker.C.
LoopTickerFires ==
    /\ Alive
    /\ lpc = "ticker"
    /\ clock < MaxLoopChanges
    /\ lpc' = "check"
    /\ UNCHANGED <<cfg, storeVars, monitorVars, handlerVars, workerVars,
                   tasks, fetchVars, ctxVars, configVars, storageVars,
                   resultChan, resultClosed, mainpc>>

\* main's select: case result, ok := <-resultChan.  A result is logged;
\* on the closed and drained channel (!ok) main closes notificationChan and
\* returns.  close of a channel already closed panics.
MainReceive ==
    /\ mainpc = "loop"
    /\ resultChan # <<>> \/ resultClosed
    /\ IF resultChan # <<>>
       THEN /\ resultChan' = Tail(resultChan)
            /\ UNCHANGED <<chanClosed, mainpc>>
       ELSE /\ chanClosed' = TRUE
            /\ mainpc' = IF chanClosed THEN "closepanic" ELSE "exited"
            /\ UNCHANGED resultChan
    /\ UNCHANGED <<cfg, storeVars, monitorVars, handlerVars, workerVars,
                   tasks, fetchVars, ctxDone, configVars, storageVars,
                   lpc, resultClosed>>

\* The signal case going back to the select instead of returning.
MainSignalNoReturn ==
    /\ mainpc = "loop"
    /\ ctxDone' = TRUE
    /\ chanClosed' = TRUE
    /\ mainpc' = IF chanClosed THEN "closepanic" ELSE "loop"
    /\ UNCHANGED <<cfg, storeVars, monitorVars, handlerVars, workerVars,
                   tasks, fetchVars, configVars, storageVars,
                   lpc, resultChan, resultClosed>>

\* main's select: case sig := <-sigChan: cancel(), close(notificationChan),
\* then the sleep of 2 seconds.
MainSignal ==
    /\ mainpc = "loop"
    /\ ctxDone' = TRUE
    /\ chanClosed' = TRUE
    /\ mainpc' = IF chanClosed THEN "closepanic" ELSE "sleep"
    /\ UNCHANGED <<cfg, storeVars, monitorVars, handlerVars, workerVars,
                   tasks, fetchVars, configVars, storageVars,
                   lpc, resultChan, resultClosed>>

\* The sleep is over and main returns: the process ends with its goroutines
\* wherever they are.
MainReturn ==
    /\ mainpc = "sleep"
    /\ mainpc' = "exited"
    /\ UNCHANGED <<cfg, storeVars, monitorVars, handlerVars, workerVars,
                   tasks, fetchVars, ctxVars, configVars, storageVars,
                   lpc, resultChan, resultClosed>>

\* The worker and the send goroutines run as long as the process does.
LoopWorkerReceive == Alive /\ WorkerReceive

LoopWorkerDone == Alive /\ WorkerDone

LoopWorkerTimeout == Alive /\ WorkerTimeout

LoopSendReturns == Alive /\ SendReturns

LoopBackoffElapsed == Alive /\ BackoffElapsed

\* The worker returning as soon as the channel is closed, whatever is
\* still buffered.
WorkerReturnDiscarding ==
    /\ Alive
    /\ dpc = "recv"
    /\ chanClosed
    /\ dpc' = "returned"
    /\ UNCHANGED <<cfg, storeVars, monitorVars, handlerVars, req, timedOut,
                   dequeued, started, tasks, fetchVars, ctxVars, loopVars,
                   configVars, storageVars>>

\* for req := range notificationChan ends: the channel is closed and empty.
WorkerReturn ==
    /\ Alive
    /\ dpc = "recv"
    /\ queue = <<>>
    /\ chanClosed
    /\ dpc' = "returned"
    /\ UNCHANGED <<cfg, storeVars, monitorVars, handlerVars, req, timedOut,
                   dequeued, started, tasks, fetchVars, ctxVars, loopVars,
                   configVars, storageVars>>

\* ------------------------------------------------------- main with -check
\* monitor.CheckOnce(ctx) called by main, up to the return of GetCurrentIP.
OnceCheck ==
    /\ mainpc = "once"
    /\ CheckOnceResolve(MaxLoopChanges)
    /\ mainpc' = IF mpc' = "idle" THEN "checked" ELSE "once"
    /\ UNCHANGED <<lpc, resultChan, resultClosed>>

\* The rest of monitor.CheckOnce(ctx).
OnceCheckFinish ==
    /\ mainpc = "once"
    /\ CheckOnceFinish(LoopFaults)
    /\ mainpc' = "checked"
    /\ UNCHANGED <<lpc, resultChan, resultClosed>>

\* os.Exit(1) on an error result; otherwise the result is logged,
\* notificationChan is closed and main sleeps 100 milliseconds.
OnceClose ==
    /\ mainpc = "checked"
    /\ IF result.Error # Nil
       THEN mainpc' = "exit1" /\ UNCHANGED chanClosed
       ELSE /\ mainpc' = IF chanClosed THEN "closepanic" ELSE "sleep"
            /\ chanClosed' = TRUE
    /\ UNCHANGED <<cfg, storeVars, monitorVars, handlerVars, workerVars,
                   tasks, fetchVars, configVars, storageVars,
                   ctxDone, lpc, resultChan, resultClosed>>

\* ------------------------------------------------------ configuration alone
\* The system calls that fail during one Load: none or one of them.
ConfigFaults ==
    {io \in [read : BOOLEAN, mkdir : BOOLEAN, write : BOOLEAN] :
        Cardinality({k \in DOMAIN io : io[k]}) <= 1}

\* The configurations a user may have written.
ConfigInputs ==
    {[createDefaultConfig EXCEPT
        !.CheckIntervalSeconds = n, !.Email.Enabled = e,
        !.Email.SMTPPort = p, !.IP.Services = sv, !.IP.TimeoutSeconds = t,
        !.WhatsApp.APIVersion = v] :
     n \in {-1, 0, 60}, e \in BOOLEAN, p \in {"", "25"},
     sv \in {<<>>, <<"https://example.org">>}, t \in {0, 5},
     v \in {"", "v18.0"}}

\* The configuration files a run may find: none, bytes that are not JSON, a
\* full object, or an object with keys left out.
ConfigFiles ==
    {NoConfigFile, [exists |-> TRUE, valid |-> FALSE, doc |-> <<>>]}
    \cup {[exists |-> TRUE, valid |-> TRUE, doc |-> Marshal(c)] :
              c \in ConfigInputs}
    \cup {[exists |-> TRUE, valid |-> TRUE, doc |-> d] :
              d \in {[check_interval_seconds |-> 60],
                     [email |-> [enabled |-> TRUE, from |-> "a@example.org"],
                      ip |-> [data_dir |-> "d"]]}}

\* One run of main up to the check of Load's error (os.Exit(1) on an error).
MainLoad ==
    /\ \E io \in ConfigFaults :
         LET r == Load(configFile, io)
         IN  /\ configFile' = r.file
             /\ loadOut' = [called |-> TRUE, io |-> io,
                            hasConfig |-> r.hasConfig, config |-> r.config,
                            err |-> r.err, exit |-> r.err # Nil]
    /\ UNCHANGED <<cfg, storeVars, monitorVars, handlerVars, workerVars,
                   tasks, fetchVars, ctxVars, loopVars, storageVars>>

\* What an endpoint answers to the fetcher of a loaded configuration.
ConfigAnswers ==
    {[kind |-> "neterr", status |-> 0, body |-> <<>>],
     [kind |-> "http", status |-> StatusOK, body |-> <<"1">>]}

\* The run goes on after a Load without error: ip.NewFetcher(cfg.IP.Services,
\* cfg.IP.TimeoutSeconds), and a GetCurrentIP of that fetcher, one answer for
\* each configured service.
MainResolve ==
    /\ loadOut.called
    /\ ~loadOut.exit
    /\ \E resps \in [1..Len(loadOut.config.IP.Services) -> ConfigAnswers] :
         /\ fetchIn' = resps
         /\ fetchOut' = GetCurrentIP(resps)
    /\ UNCHANGED <<cfg, storeVars, monitorVars, handlerVars, workerVars,
                   tasks, ctxVars, loopVars, configVars, storageVars>>

\* -------------------------------------------------------------- store alone
\* The addresses the store is given: any strings, also ones the resolver
\* never returns.
Addresses == {<<"1">>, <<"2">>, <<" ", "1">>}

\* A history file whose bytes json.Unmarshal rejects.
CorruptRecords == [exists |-> TRUE, valid |-> FALSE, records |-> <<>>]

\* SaveLastIP(a) and SaveRecord(a) with system calls that succeed.
StorageSave ==
    /\ Len(saved) < MaxSaves
    /\ \E a \in Addresses :
         LET sl == SaveLastIP(lastIPFile, a, IO(FALSE, FALSE, FALSE))
             sr == SaveRecord(recordsFile, a, clock + 1,
                              IO(FALSE, FALSE, FALSE))
         IN  /\ lastIPFile' = sl.file
             /\ recordsFile' = sr.file
             /\ clock' = clock + 1
             /\ saved' = Append(saved, a)
             /\ storeOut' = [NoStoreOut EXCEPT !.op = "save", !.err = sr.err]
    /\ UNCHANGED <<cfg, monitorVars, handlerVars, workerVars, tasks,
                   fetchVars, ctxVars, loopVars, configVars>>

\* ReadLastIP() and GetHistory().
StorageRead ==
    /\ storeOut.op # "read"
    /\ storeOut' = [op |-> "read", err |-> Nil,
                    last |-> ReadLastIP(lastIPFile, IO(FALSE, FALSE, FALSE)),
                    history |-> GetHistory(recordsFile,
                                           IO(FALSE, FALSE, FALSE))]
    /\ UNCHANGED <<cfg, storeVars, monitorVars, handlerVars, workerVars,
                   tasks, fetchVars, ctxVars, loopVars, configVars, saved>>

\* ------------------------------------------------------------ specifications
Configs == [EmailEnabled : BOOLEAN, WhatsAppEnabled : BOOLEAN]

\* No file in the data directory.
FreshStore ==
    /\ lastIPFile = NoFile
    /\ recordsFile = NoRecords

\* StartMonitoring is not running: CheckOnce is called directly.
NoLoop ==
    /\ lpc = "off"
    /\ resultChan = <<>>
    /\ resultClosed = FALSE
    /\ mainpc = "off"

\* The configuration has been loaded; Manager.Load is not called again.
NoLoad ==
    /\ configFile = NoConfigFile
    /\ loadOut = NoLoadOut

\* The store's methods are called by the monitor alone.
NoStoreCalls ==
    /\ saved = <<>>
    /\ storeOut = NoStoreOut

\* The monitor, the handler and the worker before the first tick.
InitMonitor ==
    /\ tickEnv = NoTickEnv
    /\ ctxDone = FALSE
    /\ chanClosed = FALSE
    /\ clock = 0
    /\ mpc = "idle"
    /\ currentIP = <<>>
    /\ result = NoResult
    /\ called = FALSE
    /\ offered = <<>>
    /\ dropped = {}
    /\ queue = <<>>
    /\ dpc = "recv"
    /\ req = NoRequest
    /\ tasks = <<>>
    /\ timedOut = {}
    /\ dequeued = <<>>
    /\ started = {}
    /\ fetchOut = NoFetch

InitProgram ==
    /\ FreshStore
    /\ NoLoop
    /\ NoLoad
    /\ NoStoreCalls
    /\ InitMonitor

\* The program on a fresh store, any channel configuration, system calls and
\* sends that may fail.
Init ==
    /\ InitProgram
    /\ cfg \in Configs
    /\ fetchIn = <<>>

Tick == CheckOnceResolve(MaxSendChanges) /\ UNCHANGED loopVars

TickFinish == CheckOnceFinish(NoFaults) /\ UNCHANGED loopVars

Next ==
    \/ Tick
    \/ TickFinish
    \/ WorkerReceive
    \/ WorkerDone
    \/ WorkerTimeout
    \/ SendReturns
    \/ BackoffElapsed

Spec == Init /\ [][Next]_vars

\* The monitor and the store with failing system calls; both channels are
\* disabled, so the worker only receives.
InitStore ==
    /\ InitProgram
    /\ cfg = [EmailEnabled |-> FALSE, WhatsAppEnabled |-> FALSE]
    /\ fetchIn = <<>>

StoreTick == CheckOnceResolve(MaxChanges) /\ UNCHANGED loopVars

StoreTickFinish == CheckOnceFinish(IOFaults) /\ UNCHANGED loopVars

NextStore ==
    \/ StoreTick
    \/ StoreTickFinish
    \/ WorkerReceive
    \/ WorkerDone

SpecStore == InitStore /\ [][NextStore]_vars

\* The monitor and the store against endpoints that may answer with an
\* empty body, with failing system calls.
BlankTick == CheckOnceResolveFrom(MaxLoopChanges, BlankResponses)
             /\ UNCHANGED loopVars

NextBlank ==
    \/ BlankTick
    \/ StoreTickFinish
    \/ WorkerReceive
    \/ WorkerDone

SpecBlank == InitStore /\ [][NextBlank]_vars

\* Enough changes to fill the queue, against a worker whose sends never
\* return (or that has no channel to send on).
InitQueue ==
    /\ InitProgram
    /\ cfg \in {c \in Configs : ~c.WhatsAppEnabled}
    /\ fetchIn = <<>>

QueueTick == CheckOnceResolve(MaxQueueChanges) /\ UNCHANGED loopVars

NextQueue ==
    \/ QueueTick
    \/ TickFinish
    \/ WorkerReceive
    \/ WorkerDone
    \/ WorkerTimeout

SpecQueue == InitQueue /\ [][NextQueue]_vars

\* The same runs with a worker that is scheduled: it receives when a request
\* is queued, and its select returns when done is closed or, after 30
\* seconds, by the timer.  The ticks and the sends are under no obligation.
SpecQueueFair ==
    /\ SpecQueue
    /\ WF_vars(WorkerReceive)
    /\ WF_vars(WorkerDone)
    /\ WF_vars(WorkerTimeout)

\* GetCurrentIP alone, on every list of at most MaxServices answers.
InitFetch ==
    /\ InitProgram
    /\ cfg = [EmailEnabled |-> FALSE, WhatsAppEnabled |-> FALSE]
    /\ fetchIn \in UNION {[1..n -> Responses] : n \in 1..MaxServices}

NextFetch == FetchCall

SpecFetch == InitFetch /\ [][NextFetch]_vars

\* The store alone: any sequence of at most MaxSaves saves and of reads, on a
\* data directory that is empty or holds a history file that does not parse.
InitStorage ==
    /\ lastIPFile = NoFile
    /\ recordsFile \in {NoRecords, CorruptRecords}
    /\ NoLoop
    /\ NoLoad
    /\ NoStoreCalls
    /\ InitMonitor
    /\ cfg = [EmailEnabled |-> FALSE, WhatsAppEnabled |-> FALSE]
    /\ fetchIn = <<>>

NextStorage ==
    \/ StorageSave
    \/ StorageRead

SpecStorage == InitStorage /\ [][NextStorage]_vars

\* Runs of main up to the loading of the configuration, one after the other,
\* on any configuration file.
InitConfig ==
    /\ FreshStore
    /\ NoLoop
    /\ NoStoreCalls
    /\ InitMonitor
    /\ configFile \in ConfigFiles
    /\ loadOut = NoLoadOut
    /\ cfg = [EmailEnabled |-> FALSE, WhatsAppEnabled |-> FALSE]
    /\ fetchIn = <<>>

NextConfig ==
    \/ MainLoad
    \/ MainResolve

SpecConfig == InitConfig /\ [][NextConfig]_vars

\* main from StartMonitoring on, on a fresh store, with both channels
\* disabled.  The goroutine of StartMonitoring takes its next step whenever
\* it can, and main receives a result that waits in resultChan; when the
\* signal arrives and when the sleep ends is left open.
InitLoop ==
    /\ FreshStore
    /\ NoLoad
    /\ NoStoreCalls
    /\ InitMonitor
    /\ lpc = "check"
    /\ resultChan = <<>>
    /\ resultClosed = FALSE
    /\ mainpc = "loop"
    /\ cfg = [EmailEnabled |-> FALSE, WhatsAppEnabled |-> FALSE]
    /\ fetchIn = <<>>

NextLoop ==
    \/ LoopCheck
    \/ LoopCheckFinish
    \/ LoopSend
    \/ LoopCancelled
    \/ LoopTickerFires
    \/ MainReceive
    \/ MainSignal
    \/ MainReturn
    \/ LoopWorkerReceive
    \/ LoopWorkerDone

SpecLoop ==
    /\ InitLoop
    /\ [][NextLoop]_vars
    /\ WF_vars(LoopCheck)
    /\ WF_vars(LoopCheckFinish)
    /\ WF_vars(LoopSend)
    /\ WF_vars(LoopCancelled)
    /\ WF_vars(LoopTickerFires)
    /\ WF_vars(MainReceive)

\* main from StartMonitoring on with the mail channel enabled or no channel
\* at all, the worker and its send goroutines included.  The worker is
\* scheduled: it takes its next step whenever it can, the timer of its select
\* fires after 30 seconds; the sends may never return, and when the signal
\* arrives and when main's sleep ends is left open.
InitShutdown ==
    /\ FreshStore
    /\ NoLoad
    /\ NoStoreCalls
    /\ InitMonitor
    /\ lpc = "check"
    /\ resultChan = <<>>
    /\ resultClosed = FALSE
    /\ mainpc = "loop"
    /\ cfg \in {c \in Configs : ~c.WhatsAppEnabled}
    /\ fetchIn = <<>>

NextShutdown ==
    \/ NextLoop
    \/ LoopWorkerTimeout
    \/ LoopSendReturns
    \/ LoopBackoffElapsed
    \/ WorkerReturn

SpecShutdown ==
    /\ InitShutdown
    /\ [][NextShutdown]_vars
    /\ WF_vars(LoopWorkerReceive)
    /\ WF_vars(LoopWorkerDone)
    /\ WF_vars(LoopWorkerTimeout)
    /\ WF_vars(WorkerReturn)

\* A data directory in which an earlier run recorded the address "1".
StoreWithOne ==
    /\ lastIPFile = [exists |-> TRUE, data |-> <<"1">>]
    /\ recordsFile = [exists |-> TRUE, valid |-> TRUE,
                      records |-> <<[IP |-> <<"1">>, Timestamp |-> 0]>>]

\* main with -check, from the call of CheckOnce on, for every channel
\* configuration, on a fresh store or after an earlier run.  When the sleep
\* of 100 milliseconds ends relative to the worker and to the sends is left
\* open.
InitOnce ==
    /\ FreshStore \/ StoreWithOne
    /\ NoLoad
    /\ NoStoreCalls
    /\ InitMonitor
    /\ lpc = "off"
    /\ resultChan = <<>>
    /\ resultClosed = FALSE
    /\ mainpc = "once"
    /\ cfg \in Configs
    /\ fetchIn = <<>>

NextOnce ==
    \/ OnceCheck
    \/ OnceCheckFinish
    \/ OnceClose
    \/ MainReturn
    \/ LoopWorkerReceive
    \/ LoopWorkerDone
    \/ LoopWorkerTimeout
    \/ LoopSendReturns
    \/ LoopBackoffElapsed
    \/ WorkerReturn

SpecOnce == InitOnce /\ [][NextOnce]_vars

\* ------------------------------------------------------------------- claims
\* The last completed CheckOnce detected a change and ended with the error
\* of SaveLastIP or of SaveRecord.
SaveFailure(res) ==
    /\ Len(res.Error) >= 2
    /\ res.Error[1].msg = "failed to handle IP change"
    /\ res.Error[2].msg \in {"failed to save new IP", "failed to save IP record"}

\* C1: on a tick that detects a change, a failure of SaveLastIP or of
\* SaveRecord is reported and the change handler is still invoked, offering a
\* request for the new address to the queue.
C1_SaveFailureStillNotifies ==
    (mpc = "idle" /\ result.Changed /\ SaveFailure(result))
    => /\ called
       /\ offered # <<>>
       /\ offered[Len(offered)].NewIP = result.CurrentIP

StoredLast == IF lastIPFile.exists THEN lastIPFile.data ELSE <<>>

LatestRecorded ==
    IF recordsFile.exists /\ recordsFile.valid /\ recordsFile.records # <<>>
    THEN recordsFile.records[Len(recordsFile.records)].IP
    ELSE <<>>

\* C2: whenever no tick is in progress, the stored last address equals the
\* address of the most recent history record (both absent before the first
\* change), also after ticks in which SaveLastIP or SaveRecord failed.
C2_LastEqualsLatestRecord ==
    mpc = "idle" => StoredLast = LatestRecorded

Stamps(rs) == [i \in 1..Len(rs) |-> rs[i].Timestamp]

\* C3: the queue never holds more than 10 requests; a change handler that
\* finds 10 queued leaves them unchanged, drops the new request with a
\* warning and returns nil in the same step, and one that finds room appends
\* the new request.
C3_BoundedNonBlockingEnqueue ==
    [][/\ Len(queue') <= QueueCap
       /\ offered' # offered =>
            LET r == offered'[Len(offered')]
            IN  /\ offered' = Append(offered, r)
                /\ mpc' = "idle"
                /\ result'.Error = Nil
                /\ IF Len(queue) = QueueCap
                   THEN queue' = queue /\ dropped' = dropped \cup {r.Timestamp}
                   ELSE queue' = Append(queue, r) /\ dropped' = dropped]_vars

\* The queue is full and a request has been dropped.
C3_Witness ==
    /\ Len(queue) = QueueCap
    /\ dropped # {}
    /\ offered[Len(offered)].Timestamp \in dropped

Accepted == SelectSeq(offered, LAMBDA r : r.Timestamp \notin dropped)

\* C4: the worker receives the accepted requests in the order they were
\* enqueued, and every request received has had the send goroutine of each
\* enabled channel started, so those of an earlier request are started before
\* a later request is received.
C4_DequeueInEnqueueOrder ==
    /\ Stamps(Accepted) = dequeued \o Stamps(queue)
    /\ \A i \in 1..Len(dequeued) : \A ch \in Channels :
         Enabled(ch) => <<dequeued[i], ch>> \in started

\* Two requests have been received, the second while the first one's send
\* was still running.
C4_Witness ==
    /\ Len(dequeued) = 2
    /\ \E ch \in Channels :
         /\ <<dequeued[1], ch>> \in DOMAIN tasks
         /\ <<dequeued[2], ch>> \in DOMAIN tasks

\* C5: once a Send of a goroutine has succeeded, the goroutine issues no
\* further Send and logs nothing more; a goroutine whose Sends returned
\* failure, failure, success has issued 3 Sends and reported success once.
C5_NoSendAfterSuccess ==
    [][\A k \in DOMAIN tasks :
         /\ (\E i \in 1..Len(tasks[k].results) : tasks[k].results[i] = "ok")
            => (k \in DOMAIN tasks' => tasks'[k] = tasks[k])
         /\ (k \in DOMAIN tasks' /\ tasks'[k].results = <<"err", "err", "ok">>)
            => /\ tasks'[k].st = "ok"
               /\ tasks'[k].okLogs = 1
               /\ tasks'[k].failLogs = 0
               /\ tasks'[k].sends = 3]_vars

\* A goroutine succeeded on its third attempt.
C5_Witness ==
    \E k \in DOMAIN tasks :
        /\ tasks[k].results = <<"err", "err", "ok">>
        /\ tasks[k].st = "ok"
        /\ tasks[k].sends = 3

\* C6: the outcome of a channel's goroutine is decided by the results of its
\* own Sends alone: failure is reported exactly when 3 Sends failed, success
\* exactly when its last Send succeeded, whatever the other channel does.
C6_ChannelsIndependent ==
    \A k \in DOMAIN tasks :
        LET t == tasks[k]
        IN  /\ Len(t.results) <= maxRetries
            /\ t.st = "failed" <=> t.results = <<"err", "err", "err">>
            /\ t.st = "ok" <=>
                 (t.results # <<>> /\ t.results[Len(t.results)] = "ok")
            /\ t.st = "failed" =>
                 t.sends = maxRetries /\ t.failLogs = 1 /\ t.okLogs = 0
            /\ t.st = "ok" => t.okLogs = 1 /\ t.failLogs = 0
            /\ ~Finished(t) => t.okLogs = 0 /\ t.failLogs = 0

\* Partial success: for the request the worker holds, the mail goroutine
\* failed after 3 attempts and the message goroutine succeeded.
C6_Witness ==
    /\ dpc = "wait"
    /\ <<req.Timestamp, "email">> \in DOMAIN tasks
    /\ <<req.Timestamp, "whatsapp">> \in DOMAIN tasks
    /\ tasks[<<req.Timestamp, "email">>].st = "failed"
    /\ tasks[<<req.Timestamp, "whatsapp">>].st = "ok"

\* C7: a worker waiting for the goroutines of a request can always proceed:
\* by done, without a warning, when they have all returned, and by the timer,
\* with a timeout warning for that request, while one of them is running.
C7_WaitIsBounded ==
    /\ [](dpc = "wait" =>
            IF AllDone
            THEN ENABLED WorkerDone /\ ~ENABLED WorkerTimeout
            ELSE ENABLED WorkerTimeout /\ ~ENABLED WorkerDone)
    /\ [][(dpc = "wait" /\ dpc' = "recv") =>
            timedOut' = IF AllDone THEN timedOut
                        ELSE timedOut \cup {req.Timestamp}]_vars

\* The worker left a request by the timer while a Send was outstanding, and
\* an earlier request by done.
C7_Witness ==
    /\ Len(dequeued) = 2
    /\ dpc = "recv"
    /\ timedOut = {dequeued[2]}
    /\ \E k \in DOMAIN tasks : k[1] = dequeued[2] /\ tasks[k].st = "sending"

\* C8: the monitor never waits for the dispatcher: a tick that has resolved
\* the address can always complete, and an idle monitor can always start the
\* next tick, whatever the queue and the send goroutines hold.
C8_MonitorNeverWaits ==
    /\ mpc = "resolved" => ENABLED TickFinish
    /\ (mpc = "idle" /\ clock < MaxQueueChanges) => ENABLED QueueTick

\* A tick has resolved a new address while the queue is full and the worker
\* waits for a Send that has not returned.
C8_Witness ==
    /\ mpc = "resolved"
    /\ currentIP # StoredLast
    /\ Len(queue) = QueueCap
    /\ dpc = "wait"
    /\ \E k \in DOMAIN tasks : tasks[k].st = "sending"

\* What the claims call a failing and a succeeding endpoint, stated on the
\* answer alone.
NonSpace(body) == {i \in 1..Len(body) : body[i] \notin Whitespace}

EndpointFails(resp) ==
    \/ resp.kind \in {"neterr", "readerr"}
    \/ resp.status # StatusOK
    \/ NonSpace(resp.body) = {}

\* The body without its leading and trailing whitespace: from the first to
\* the last character that is not whitespace.
Trimmed(body) ==
    LET ns == NonSpace(body)
        lo == CHOOSE i \in ns : \A j \in ns : i <= j
        hi == CHOOSE i \in ns : \A j \in ns : j <= i
    IN  IF ns = {} THEN <<>> ELSE SubSeq(body, lo, hi)

UpTo(n) == [i \in 1..n |-> i]

FailureMsg(resp) ==
    IF resp.kind = "neterr" THEN "failed to fetch"
    ELSE IF resp.status # StatusOK THEN "service returned status"
    ELSE IF resp.kind = "readerr" THEN "failed to read response"
    ELSE "empty response"

\* C9: when the first N endpoints fail and endpoint N+1 returns a non-empty
\* body, GetCurrentIP returns exactly the whitespace-trimmed body of endpoint
\* N+1, without error, and has contacted endpoints 1..N+1 and no other.
C9_FirstSuccessWins ==
    fetchOut # NoFetch =>
        \A n \in 0..(Len(fetchIn) - 1) :
            (/\ \A i \in 1..n : EndpointFails(fetchIn[i])
             /\ ~EndpointFails(fetchIn[n + 1]))
            => /\ fetchOut.err = Nil
               /\ fetchOut.ip = Trimmed(fetchIn[n + 1].body)
               /\ fetchOut.contacted = UpTo(n + 1)

\* Two endpoints failed, the third answered a body with surrounding
\* whitespace, and the call has returned.
C9_Witness ==
    /\ fetchOut # NoFetch
    /\ Len(fetchIn) = 3
    /\ EndpointFails(fetchIn[1])
    /\ EndpointFails(fetchIn[2])
    /\ fetchIn[3] = [kind |-> "http", status |-> StatusOK,
                     body |-> <<" ", "1">>]
    /\ fetchOut.ip = <<"1">>

\* C10: when every endpoint fails, GetCurrentIP returns the
\* all-services-failed error wrapping the error of the last endpoint of the
\* list, having contacted every endpoint exactly once, in list order.
C10_AllFailed ==
    (fetchOut # NoFetch /\ \A i \in 1..Len(fetchIn) : EndpointFails(fetchIn[i]))
    => /\ fetchOut.ip = <<>>
       /\ Len(fetchOut.err) = 2
       /\ fetchOut.err[1].msg = "failed to get IP from all services"
       /\ fetchOut.err[2] = [msg |-> FailureMsg(fetchIn[Len(fetchIn)]),
                             svc |-> Len(fetchIn)]
       /\ fetchOut.contacted = UpTo(Len(fetchIn))

\* Three endpoints failed in three different ways and the call has returned.
C10_Witness ==
    /\ fetchOut # NoFetch
    /\ Len(fetchIn) = 3
    /\ fetchIn[1].kind = "neterr"
    /\ fetchIn[2].status # StatusOK
    /\ fetchIn[3] = [kind |-> "http", status |-> StatusOK, body |-> <<" ">>]
    /\ fetchOut.err # Nil

\* A step of the monitor that ends a CheckOnce (the worker's steps change
\* dpc or tasks).
TickEnds == dpc' = dpc /\ tasks' = tasks /\ mpc' = "idle"

\* C11: a tick in which every endpoint fails, or in which the read of the
\* last-address file fails, returns a result that carries that error and is
\* not Changed, and leaves the last-address file, the history file and the
\* notification queue as they were.
C11_FailedTickTouchesNothing ==
    [][(TickEnds /\ (tickEnv'.resolve \/ tickEnv'.read))
       => /\ result'.Error # Nil
          /\ result'.Error[1].msg = IF tickEnv'.resolve
                                    THEN "failed to get current IP"
                                    ELSE "failed to read last IP"
          /\ ~result'.Changed
          /\ UNCHANGED <<lastIPFile, recordsFile, queue, offered,
                         dropped>>]_vars

\* A tick has failed to read the last-address file that an earlier tick
\* wrote, with a request of the earlier tick still queued.
C11_Witness ==
    /\ mpc = "idle"
    /\ tickEnv.read
    /\ lastIPFile.exists
    /\ queue # <<>>
    /\ result.Error # Nil

\* C12: the tick that completes on a store without files, the resolver
\* having returned the address A, reports Changed from the empty address to
\* A without error, leaves A in the last-address file and a history of
\* exactly one record, for A, and offers exactly one request, from "Unknown"
\* to A, which is queued.
C12_FirstRun ==
    [][(mpc = "resolved" /\ mpc' = "idle" /\ ~lastIPFile.exists
          /\ ~recordsFile.exists)
       => LET A == currentIP
              e == [OldIP |-> Unknown, NewIP |-> A, Timestamp |-> clock']
          IN  /\ A # <<>>
              /\ result' = [CurrentIP |-> A, LastIP |-> <<>>,
                            Changed |-> TRUE, Error |-> Nil]
              /\ lastIPFile' = [exists |-> TRUE, data |-> A]
              /\ recordsFile'.exists /\ recordsFile'.valid
              /\ Len(recordsFile'.records) = 1
              /\ recordsFile'.records[1].IP = A
              /\ offered' = <<e>>
              /\ queue' = <<e>>]_vars

\* The first tick has completed: one record, one request, previous address
\* unknown.
C12_Witness ==
    /\ mpc = "idle"
    /\ result.Changed
    /\ result.LastIP = <<>>
    /\ Len(recordsFile.records) = 1
    /\ StoredLast = recordsFile.records[1].IP
    /\ Len(offered) = 1
    /\ offered[1].OldIP = Unknown
    /\ offered[1].NewIP = StoredLast

\* C13: a tick that resolves the address the last-address file holds, and
\* reads that file, returns the unchanged result without error, does not call
\* the handler, and leaves both files, the queue and the requests offered as
\* they were, also when a write would fail: no write is attempted.
C13_UnchangedTickTouchesNothing ==
    [][(mpc = "resolved" /\ TickEnds /\ lastIPFile.exists
          /\ currentIP = TrimSpace(lastIPFile.data) /\ ~tickEnv'.read)
       => /\ result' = [CurrentIP |-> currentIP, LastIP |-> currentIP,
                        Changed |-> FALSE, Error |-> Nil]
          /\ ~called'
          /\ UNCHANGED <<lastIPFile, recordsFile, clock, queue, offered,
                         dropped>>]_vars

\* A tick has found the address of the one record unchanged.
C13_Witness ==
    /\ mpc = "idle"
    /\ result.Error = Nil
    /\ ~result.Changed
    /\ result.CurrentIP # <<>>
    /\ result.CurrentIP = StoredLast
    /\ Len(recordsFile.records) = 1

\* The records a history file holds.
RecordsOf(file) == IF file.exists /\ file.valid THEN file.records ELSE <<>>

\* C14: every step leaves the history file as it was or appends exactly one
\* record at its end, the earlier records unchanged and in place; only a step
\* that ends a tick appends.
C14_HistoryAppendOnly ==
    [][\/ recordsFile' = recordsFile
       \/ /\ TickEnds
          /\ recordsFile'.exists /\ recordsFile'.valid
          /\ Len(recordsFile'.records) = Len(RecordsOf(recordsFile)) + 1
          /\ SubSeq(recordsFile'.records, 1, Len(RecordsOf(recordsFile)))
               = RecordsOf(recordsFile)]_vars

\* Two records of different addresses are in the history and a later tick
\* has ended with an error.
C14_Witness ==
    /\ mpc = "idle"
    /\ Len(recordsFile.records) = 2
    /\ recordsFile.records[1].IP # recordsFile.records[2].IP
    /\ recordsFile.records[1].Timestamp < recordsFile.records[2].Timestamp
    /\ result.Error # Nil

\* C15: SaveRecord on a history file that is present and does not parse
\* returns an error whose chain holds the parse failure and leaves the file
\* as it was; on a missing history file it returns nil and writes a history
\* of the one new record.
C15_SaveRecordOnBadOrMissingFile ==
    [][(storeOut'.op = "save" /\ saved' # saved)
       => LET a == saved'[Len(saved')]
          IN  /\ (recordsFile.exists /\ ~recordsFile.valid)
                 => /\ \E i \in 1..Len(storeOut'.err) :
                          storeOut'.err[i].msg = "failed to unmarshal records"
                    /\ recordsFile' = recordsFile
              /\ ~recordsFile.exists
                 => /\ storeOut'.err = Nil
                    /\ recordsFile' =
                         [exists |-> TRUE, valid |-> TRUE,
                          records |-> <<[IP |-> a, Timestamp |-> clock']>>]]_vars

\* SaveRecord has failed twice on the file that does not parse.
C15_Witness ==
    /\ storeOut.op = "save"
    /\ storeOut.err # Nil
    /\ recordsFile = CorruptRecords
    /\ Len(saved) = 2

\* The saves started on an empty data directory: a history file that does
\* not parse is never rewritten, one that was missing is written parseable.
StartedFresh == recordsFile.valid

AddressesOf(rs) == [i \in 1..Len(rs) |-> rs[i].IP]

C17_FreshStoreReads ==
    (storeOut.op = "read" /\ ~lastIPFile.exists /\ ~recordsFile.exists)
    => /\ storeOut.last = [ip |-> <<>>, err |-> Nil]
       /\ storeOut.history = [records |-> <<>>, err |-> Nil]

\* Both methods have been called on the empty data directory.
C17_Witness ==
    /\ storeOut.op = "read"
    /\ saved = <<>>
    /\ lastIPFile = NoFile
    /\ recordsFile = NoRecords

\* The goroutine of StartMonitoring has returned or panicked.
LoopEnded == lpc \in {"stopped", "panicked"}

\* C18: the monitoring loop ends only when its context has been cancelled,
\* and while it is not cancelled a tick that ended with an error, of the
\* resolution, of the read of the last address or of a save, is followed by
\* the delivery of the result and, when the ticker fires next, by the next
\* CheckOnce.
C18_FailedTickGoesOn ==
    /\ [](LoopEnded => ctxDone)
    /\ [](~ctxDone => Alive)
    /\ ((lpc = "send" /\ result.Error # Nil /\ clock < MaxLoopChanges)
          ~> (lpc = "check" \/ ctxDone))

\* A tick failed in a save, the loop went on, and the next tick has
\* completed without error.
C18_Witness ==
    /\ lpc = "send"
    /\ ~ctxDone
    /\ result.Error = Nil
    /\ ~result.Changed
    /\ StoredLast # LatestRecorded
    /\ resultChan # <<>>
    /\ SaveFailure(resultChan[1])

\* C19: the step that takes the termination signal cancels the context and
\* closes the notification queue; from then on the monitoring goroutine
\* stops with its result channel closed, unless the process has ended
\* first; and a CheckOnce that starts after the cancellation ends in its
\* first step with an error, leaving both files, the queue and the requests
\* offered as they were.
C19_ShutdownStopsMonitor ==
    /\ [](mainpc \in {"sleep", "exited"} => ctxDone /\ chanClosed)
    /\ [][(ctxDone /\ lpc = "check" /\ mpc = "idle"
             /\ (lpc' # lpc \/ mpc' # mpc))
           => /\ lpc' = "send" /\ mpc' = "idle"
              /\ result'.Error # Nil
              /\ UNCHANGED <<lastIPFile, recordsFile, queue, offered,
                             dropped>>]_vars
    /\ (ctxDone ~> ((LoopEnded /\ resultClosed) \/ ~Alive))

\* After the signal a tick started, failed, delivered its result, and the
\* goroutine then stopped on ctx.Done() and closed its result channel, the
\* process still running.
C19_Witness ==
    /\ ctxDone
    /\ chanClosed
    /\ mainpc = "sleep"
    /\ lpc = "stopped"
    /\ resultClosed
    /\ tickEnv.resolve
    /\ resultChan # <<>>
    /\ resultChan[1].Error # Nil
    /\ queue # <<>>

\* The file Load writes when it finds none.
DefaultFile ==
    [exists |-> TRUE, valid |-> TRUE, doc |-> Marshal(createDefaultConfig)]

NoFault(io) == ~io.read /\ ~io.mkdir /\ ~io.write

\* C20: a Load that finds no configuration file writes the file of the
\* default configuration and returns no configuration and an error, on which
\* main exits; a Load of that file returns the default values, field by
\* field, and no error, and leaves the file as it is.
C20_LoadCreatesDefault ==
    [][(loadOut' # loadOut /\ NoFault(loadOut'.io))
       => /\ ~configFile.exists
             => /\ configFile' = DefaultFile
                /\ ~loadOut'.hasConfig
                /\ loadOut'.err # Nil
                /\ loadOut'.exit
          /\ configFile = DefaultFile
             => /\ configFile' = configFile
                /\ loadOut'.hasConfig
                /\ loadOut'.config = createDefaultConfig
                /\ loadOut'.err = Nil
                /\ ~loadOut'.exit]_vars

\* The first run found no file and wrote one; the second run has loaded it.
C20_Witness ==
    /\ configFile = DefaultFile
    /\ loadOut.called
    /\ loadOut.hasConfig
    /\ loadOut.config.Email.Enabled
    /\ loadOut.config.CheckIntervalSeconds = 300
    /\ loadOut.err = Nil

\* C21: the change handler never sends on notificationChan after it has been
\* closed, so no tick ends in the panic "send on closed channel", however
\* the signal's cancel() and close(notificationChan) interleave with a tick
\* in progress.
C21_NoSendOnClosedChannel ==
    ~(chanClosed /\ mpc = "panic")

\* C22: once the worker has left a request by the timer, no further Send is
\* started for that request on any channel.
C22_NoSendAfterTimeout ==
    [][\A k \in DOMAIN tasks :
         (k[1] \in timedOut /\ k \in DOMAIN tasks')
         => tasks'[k].sends = tasks[k].sends]_vars

\* C22 as the program has it: once the worker has left a request by the
\* timer it starts no send goroutine for that request again; the goroutines
\* still running are not cancelled and go on with their retry loop, each
\* starting a further Send only after a failed one and its backoff sleep, up
\* to 3 Sends in all.
C22_TimedOutSendsGoOn ==
    [][/\ \A k \in DOMAIN tasks' : k[1] \in timedOut => k \in DOMAIN tasks
       /\ \A k \in DOMAIN tasks :
            (k[1] \in timedOut /\ k \in DOMAIN tasks')
            => /\ tasks'[k].sends <= maxRetries
               /\ \/ tasks'[k].sends = tasks[k].sends
                  \/ /\ tasks'[k].sends = tasks[k].sends + 1
                     /\ tasks[k].st = "backoff"
                     /\ tasks'[k].st = "sending"
                     /\ tasks[k].results[Len(tasks[k].results)] = "err"]_vars

\* The worker gave a request up and waits for the sends of the next one,
\* while a goroutine of the first request is at its third Send.
C22_Witness ==
    /\ dpc = "wait"
    /\ \E k \in DOMAIN tasks :
         /\ k[1] \in timedOut
         /\ k[1] # req.Timestamp
         /\ tasks[k].st = "sending"
         /\ tasks[k].sends = maxRetries

\* The send goroutines on channel ch that have not returned.
RunningOn(ch) == {k \in DOMAIN tasks : k[2] = ch /\ ~Finished(tasks[k])}

\* C23: on each channel at most one send goroutine is running at any time,
\* so the sends of a request start only after every send of an earlier
\* request on that channel has finished.
C23_OneSendTaskPerChannel ==
    \A ch \in Channels : Cardinality(RunningOn(ch)) <= 1

\* C23 as the program has it: the goroutines of a request are started only
\* after the worker has left every earlier request, by done with all its
\* sends finished or by the timer; a goroutine running for a request the
\* worker does not hold belongs to a request that timed out, and only such
\* goroutines run beside those of a later request on the same channel.
C23_OverlapOnlyAfterTimeout ==
    /\ \A k \in DOMAIN tasks :
         (~Finished(tasks[k]) /\ ~Awaited(k)) => k[1] \in timedOut
    /\ \A ch \in Channels : \A k, j \in RunningOn(ch) :
         k[1] < j[1] => k[1] \in timedOut
    /\ \A k \in DOMAIN tasks : k \in started /\ Enabled(k[2])

\* Two requests have their sends outstanding on the same channel: the worker
\* gave the first one up and waits for the second.
C23_Witness ==
    /\ Len(dequeued) = 2
    /\ dequeued[1] \in timedOut
    /\ dpc = "wait"
    /\ req.Timestamp = dequeued[2]
    /\ \E ch \in Channels :
         /\ <<dequeued[1], ch>> \in RunningOn(ch)
         /\ <<dequeued[2], ch>> \in RunningOn(ch)

Oks(t) == {i \in 1..Len(t.results) : t.results[i] = "ok"}

\* C25: for every request received and every enabled channel a send
\* goroutine was started; it makes between 1 and 3 Sends, of which at most one
\* succeeds and only the last; when every Send it made has returned and none
\* is to follow, exactly one outcome has been logged: success, or failure
\* after 3 attempts; before that, none.
C25_OneOutcomePerChannel ==
    /\ \A i \in 1..Len(dequeued) : \A ch \in Channels :
         Enabled(ch) => <<dequeued[i], ch>> \in started
    /\ \A k \in DOMAIN tasks :
         LET t == tasks[k]
         IN  /\ t.sends \in 1..maxRetries
             /\ Cardinality(Oks(t)) <= 1
             /\ Oks(t) \subseteq {Len(t.results)}
             /\ Len(t.results) = IF t.st = "sending" THEN t.sends - 1
                                 ELSE t.sends
             /\ t.okLogs + t.failLogs = IF Finished(t) THEN 1 ELSE 0
             /\ t.okLogs = Cardinality(Oks(t))
             /\ t.failLogs = 1 <=> (Oks(t) = {} /\ Len(t.results) = maxRetries)
             /\ (t.st = "sending" \/ t.st = "backoff") <=>
                  (Oks(t) = {} /\ Len(t.results) < maxRetries)

\* For the request the worker holds both goroutines have returned: the mail
\* one succeeded at its second Send, the message one failed three times.
C25_Witness ==
    /\ dpc = "wait"
    /\ <<req.Timestamp, "email">> \in DOMAIN tasks
    /\ <<req.Timestamp, "whatsapp">> \in DOMAIN tasks
    /\ tasks[<<req.Timestamp, "email">>].results = <<"err", "ok">>
    /\ tasks[<<req.Timestamp, "email">>].okLogs = 1
    /\ tasks[<<req.Timestamp, "whatsapp">>].results = <<"err", "err", "err">>
    /\ tasks[<<req.Timestamp, "whatsapp">>].failLogs = 1

ConfigEnabled(ch) ==
    IF ch = "email" THEN cfg.EmailEnabled ELSE cfg.WhatsAppEnabled

ClientOf(ch) == IF ch = "email" THEN emailClient ELSE whatsappClient

\* C26: no send goroutine is started, and so no Send issued, on a channel
\* that is disabled or whose client is nil; with both channels disabled a
\* received request has no goroutine, the worker's wait ends by done at once
\* (the timer branch cannot be taken) and no timeout warning is ever logged.
C26_NoSendOnDisabledChannel ==
    /\ \A k \in started \cup DOMAIN tasks :
         ConfigEnabled(k[2]) /\ ClientOf(k[2]) # NilClient
    /\ (~ConfigEnabled("email") /\ ~ConfigEnabled("whatsapp"))
       => /\ started = {}
          /\ tasks = <<>>
          /\ timedOut = {}
          /\ dpc = "wait" => ENABLED WorkerDone /\ ~ENABLED WorkerTimeout

\* With both channels disabled the worker has received and completed two
\* requests.
C26_Witness ==
    /\ ~cfg.EmailEnabled
    /\ ~cfg.WhatsAppEnabled
    /\ Len(dequeued) = 2
    /\ dpc = "recv"

Queued(n) == \E i \in 1..Len(queue) : queue[i].Timestamp = n

Dequeued(n) == \E i \in 1..Len(dequeued) : dequeued[i] = n

\* C27: every request accepted into the queue is received by the worker
\* exactly once: it is eventually received, also behind a request whose sends
\* never return, and no request is received twice or while still queued.
C27_ConsumedExactlyOnce ==
    /\ [](\A i, j \in 1..Len(dequeued) : dequeued[i] = dequeued[j] => i = j)
    /\ [](\A n \in 1..MaxQueueChanges : ~(Queued(n) /\ Dequeued(n)))
    /\ \A n \in 1..MaxQueueChanges : Queued(n) ~> Dequeued(n)

\* The worker gave up a request whose Send has not returned and has received
\* the request that was queued behind it.
C27_Witness ==
    /\ Len(dequeued) >= 2
    /\ dequeued[1] \in timedOut
    /\ <<dequeued[1], "email">> \in DOMAIN tasks
    /\ tasks[<<dequeued[1], "email">>].st = "sending"
    /\ queue = <<>>

\* C28: a tick in which the resolution and the read of the last address
\* succeed returns a result that carries the resolved address and the stored
\* last address (empty when there is none) and whose Changed flag is true
\* exactly when the two differ as strings, whether or not the saves of a
\* changed tick succeed.
C28_ChangedIffDifferent ==
    [][(mpc = "resolved" /\ mpc' = "idle" /\ ~tickEnv'.read)
       => /\ result'.CurrentIP = currentIP
          /\ result'.LastIP = StoredLast
          /\ result'.Changed = (currentIP # StoredLast)
          /\ StoredLast = <<>> => result'.Changed]_vars

\* A tick has returned unchanged after an earlier one returned changed, and
\* before that the first tick found no stored address.
C28_Witness ==
    /\ mpc = "idle"
    /\ ~tickEnv.read
    /\ ~result.Changed
    /\ result.Error = Nil
    /\ result.CurrentIP = <<"2">>
    /\ result.LastIP = <<"2">>
    /\ Len(recordsFile.records) = 2

\* C29: StartMonitoring's goroutine begins with a check, without waiting for
\* the ticker, and starts every later check on a ticker event, one check for
\* each; a CheckOnce is in progress only while that goroutine is at its call,
\* which it leaves only with the check completed, so there is never more than
\* one, and the last-address and history files are written by that call
\* alone.
C29_OneCheckPerTick ==
    /\ lpc = "check"
    /\ [](lpc \in {"send", "ticker"} => result # NoResult)
    /\ [](mpc = "resolved" => lpc = "check")
    /\ [][(lpc' = "check" /\ lpc # "check") => lpc = "ticker"]_vars
    /\ [][(lpc = "check" /\ lpc' # "check")
          => /\ lpc' \in {"send", "panicked"}
             /\ mpc' \in {"idle", "panic"}
             /\ lpc' = "send" => result'.Error # Nil \/ result'.CurrentIP # <<>>]_vars
    /\ [][(mpc' # mpc \/ result' # result \/ lastIPFile' # lastIPFile
            \/ recordsFile' # recordsFile)
          => (lpc = "check" /\ lpc' \in {"check", "send", "panicked"})]_vars

\* The first check recorded a change and sent its result, the ticker fired,
\* and the second check has resolved an address.
C29_Witness ==
    /\ lpc = "check"
    /\ mpc = "resolved"
    /\ Len(recordsFile.records) = 1
    /\ result.Changed

\* C30: with -check, when the check detected a change and the request was
\* queued, main returns only after the send goroutine of every enabled
\* channel has been started for that request and has returned, with success
\* or with the final failure.
C30_OnceWaitsForSends ==
    (mainpc = "exited" /\ result.Changed /\ offered # <<>>)
    => \A ch \in Channels :
         Enabled(ch) =>
           LET k == <<offered[1].Timestamp, ch>>
           IN  /\ k \in started
               /\ k \in DOMAIN tasks => Finished(tasks[k])

\* C31: once notificationChan is closed nothing more is queued, the worker
\* receives the requests still buffered in the order they were enqueued and
\* returns only when none is left; as long as the process lives it does
\* return, whatever the sends of a request do.
C31_WorkerDrainsAndReturns ==
    /\ [](Stamps(Accepted) = dequeued \o Stamps(queue))
    /\ [](dpc = "returned" => chanClosed /\ queue = <<>>)
    /\ [][chanClosed => \/ queue' = queue
                        \/ /\ queue # <<>>
                           /\ queue' = Tail(queue)
                           /\ dequeued' = Append(dequeued,
                                                 queue[1].Timestamp)]_vars
    /\ chanClosed ~> (dpc = "returned" \/ ~Alive)

\* The worker has returned after the close, having received both requests
\* and given up the first, whose Send has not returned.
C31_Witness ==
    /\ chanClosed
    /\ Alive
    /\ dpc = "returned"
    /\ Len(dequeued) = 2
    /\ dequeued[1] \in timedOut
    /\ \E k \in DOMAIN tasks : k[1] = dequeued[1] /\ tasks[k].st = "sending"

\* C32: when a tick that detected a change to an address ended with the
\* error of SaveLastIP or of SaveRecord, the next tick that resolves the same
\* address and reads the last address reports Changed again, and so retries
\* the saves and the hand-off to the change handler.
C32_ChangeRetriedAfterSaveError ==
    [][(/\ mpc = "resolved"
        /\ mpc' = "idle"
        /\ result.Changed
        /\ SaveFailure(result)
        /\ result.CurrentIP = currentIP
        /\ ~tickEnv'.read)
       => result'.Changed]_vars

\* C33: while every save succeeds, the requests the change handler offers to
\* the queue, accepted or dropped, form a chain: the first has the previous
\* address "Unknown", and each later one has as previous address the new
\* address of the one offered before it.
C33_RequestsChain ==
    /\ offered # <<>> => offered[1].OldIP = Unknown
    /\ \A i \in 1..(Len(offered) - 1) :
         /\ offered[i + 1].OldIP = offered[i].NewIP
         /\ offered[i + 1].NewIP # offered[i].NewIP
         /\ offered[i + 1].Timestamp > offered[i].Timestamp

\* Twelve requests have been offered, the last two of them dropped.
C33_Witness ==
    /\ Len(offered) = 12
    /\ offered[11].Timestamp \in dropped
    /\ offered[12].Timestamp \in dropped
    /\ offered[12].OldIP = offered[11].NewIP

\* C34: the monitor never persists an empty address: a resolved address is
\* never empty (nor blank), the last-address file, once written, holds a
\* non-empty address without surrounding whitespace, and every history record
\* carries one.
C34_NoEmptyAddressPersisted ==
    /\ mpc = "resolved" => currentIP # <<>>
    /\ lastIPFile.exists
       => lastIPFile.data # <<>> /\ TrimSpace(lastIPFile.data) = lastIPFile.data
    /\ \A i \in 1..Len(recordsFile.records) :
         /\ recordsFile.records[i].IP # <<>>
         /\ TrimSpace(recordsFile.records[i].IP) = recordsFile.records[i].IP
    /\ \A i \in 1..Len(offered) : offered[i].NewIP # <<>>

\* After a change was recorded, a tick found only empty bodies and failed
\* with the error of the empty response, leaving the store as it was.
C34_Witness ==
    /\ mpc = "idle"
    /\ Len(result.Error) = 3
    /\ result.Error[3].msg = "empty response"
    /\ lastIPFile.exists
    /\ Len(recordsFile.records) = 1

\* C35: starting from an empty store, no two consecutive history records
\* carry the same address, whatever saves fail on the way.
C35_NoRepeatedRecord ==
    \A i \in 1..(Len(recordsFile.records) - 1) :
        recordsFile.records[i].IP # recordsFile.records[i + 1].IP

\* C36: notificationChan is closed at most once: main never executes
\* close(notificationChan) on the channel already closed, and once the
\* channel is closed main is on no path that leads to a close (it sleeps
\* before returning, has returned, or the process has crashed), however the
\* termination signal and the closing of resultChan interleave.
C36_ClosedAtMostOnce ==
    /\ mainpc # "closepanic"
    /\ chanClosed => mainpc \in {"sleep", "exited", "crashed"}

\* The signal closed notificationChan and cancelled the context, and the
\* monitor's goroutine has closed resultChan while main sleeps.
C36_Witness ==
    /\ chanClosed
    /\ resultClosed
    /\ lpc = "stopped"
    /\ mainpc = "sleep"

\* C37: the last-address store gives back what was saved: at every state of
\* the monitor, SaveLastIP(a) followed by ReadLastIP returns a for every
\* non-empty address a without surrounding whitespace; after a changed tick
\* without error ReadLastIP returns the address of that tick; and the tick
\* that follows it with the same resolved address, reading the file, returns
\* unchanged without error and writes nothing.
C37_SaveThenReadRoundTrip ==
    /\ [](\A a \in Addresses :
            (a # <<>> /\ TrimSpace(a) = a)
            => ReadLastIP(SaveLastIP(lastIPFile, a,
                                     IO(FALSE, FALSE, FALSE)).file,
                          IO(FALSE, FALSE, FALSE))
               = [ip |-> a, err |-> Nil])
    /\ []((mpc = "idle" /\ result.Changed /\ result.Error = Nil)
          => ReadLastIP(lastIPFile, IO(FALSE, FALSE, FALSE))
             = [ip |-> result.CurrentIP, err |-> Nil])
    /\ [][(mpc = "resolved" /\ mpc' = "idle" /\ result.Changed
             /\ result.Error = Nil /\ currentIP = result.CurrentIP
             /\ ~tickEnv'.read)
          => /\ result' = [CurrentIP |-> currentIP, LastIP |-> currentIP,
                           Changed |-> FALSE, Error |-> Nil]
             /\ UNCHANGED <<lastIPFile, recordsFile>>]_vars

\* The address changed to "2" and then to "1", both saved, and the tick after
\* the second change resolved "1" again and returned unchanged.
C37_Witness ==
    /\ mpc = "idle"
    /\ result = [CurrentIP |-> <<"1">>, LastIP |-> <<"1">>,
                 Changed |-> FALSE, Error |-> Nil]
    /\ lastIPFile = [exists |-> TRUE, data |-> <<"1">>]
    /\ AddressesOf(recordsFile.records) = <<<<"2">>, <<"1">>>>
    /\ recordsFile.records[2].Timestamp = clock

\* C38: a Load without error returns a configuration with at least one
\* service, a positive check interval and a positive resolver timeout, which
\* validateConfig leaves as it is; validateConfig applied twice to what a
\* configuration file holds gives what it gives applied once; and the
\* GetCurrentIP of a fetcher built from a loaded configuration never returns
\* the error "no IP services configured".
C38_LoadedConfigIsUsable ==
    /\ (loadOut.called /\ loadOut.err = Nil)
       => /\ loadOut.hasConfig
          /\ Len(loadOut.config.IP.Services) > 0
          /\ loadOut.config.CheckIntervalSeconds > 0
          /\ loadOut.config.IP.TimeoutSeconds > 0
          /\ validateConfig(loadOut.config) = loadOut.config
    /\ (configFile.exists /\ configFile.valid)
       => LET c == Unmarshal(configFile.doc)
          IN  validateConfig(validateConfig(c)) = validateConfig(c)
    /\ fetchOut.err # Nil => fetchOut.err[1].msg # "no IP services configured"

\* A file with no service, a negative interval and no resolver timeout was
\* loaded, and the fetcher has resolved through the default services.
C38_Witness ==
    /\ configFile.exists
    /\ configFile.valid
    /\ Unmarshal(configFile.doc).IP.Services = <<>>
    /\ Unmarshal(configFile.doc).CheckIntervalSeconds < 0
    /\ Unmarshal(configFile.doc).IP.TimeoutSeconds = 0
    /\ loadOut.called
    /\ loadOut.err = Nil
    /\ loadOut.config.IP.Services = DefaultServices
    /\ Len(fetchIn) = Len(DefaultServices)
    /\ fetchOut.err = Nil
    /\ fetchOut.ip = <<"1">>

====
